---- MODULE Spec2Model ----
(***************************************************************************)
(* Quran-Bot-MD: the quiz session state machine (commands/index.js,        *)
(* index.js), the anti-spam rate limiter (index.js), the dispatch loop of  *)
(* messages.upsert (index.js), parseCommand (utils/helpers.js), the        *)
(* command registry and the page command (commands/index.js) and the two   *)
(* persisted sets (utils/chatStore.js, utils/seenUsers.js), as state       *)
(* machines: Spec, RateSpec, PipeSpec, ParseSpec, RegSpec, StoreSpec,      *)
(* PageSpec, KeySpec (the quiz machine with two conversations),            *)
(* BroadcastSpec (the broadcast command) and AnswerSpec (the dispatch loop *)
(* with a quiz pending).                                                   *)
(*                                                                         *)
(* A message handler is an async function: it runs without interruption    *)
(* from one await to the next, and other handlers and timer callbacks run  *)
(* while it is suspended.  Every action below is one such uninterrupted    *)
(* segment of the source.                                                  *)
(***************************************************************************)
EXTENDS Integers, Sequences, FiniteSets, Bags, TLC

\* ------------------------------------------------------------------ bounds
MaxMsgs == 3          \* inbound events delivered in one behaviour
MaxHandlers == 2      \* event handlers in flight at once
TickMs == 15000       \* granularity of the clock in Spec
MaxNow == 45000       \* horizon of the clock in Spec
RateTickMs == 20000   \* granularity of the clock in RateSpec
RateMaxNow == 450000  \* horizon of the clock in RateSpec
PipeMaxMsgs == 2      \* inbound events delivered in one behaviour of PipeSpec
PipeMaxBatch == 2     \* events in one messages.upsert batch of PipeSpec
MaxLen == 4           \* length of the texts parsed in ParseSpec
MaxDigits == 3        \* length of an argument of the page command in PageSpec
MaxBroadcasts == 1    \* broadcast commands received in one behaviour of BroadcastSpec

\* ------------------------------------------------------- program constants
QUIZ_TIMEOUT == 30000   \* setTimeout(..., 30_000)
maxMessages == 10       \* config.antiSpam.maxMessages
interval == 60000       \* config.antiSpam.interval
blockDuration == 300000 \* config.antiSpam.blockDuration

\* --------------------------------------------------------------- identities
\* A JID is user@server; a group conversation's server is g.us.
Jid(id, server) == [id |-> id, server |-> server]
NoJid == Jid("", "")
GroupChat == Jid("g1", "g.us")
PrivateChat == Jid("u1", "s.whatsapp.net")

\* The owner by phone number and by linked-device identity.
OwnerJid == Jid("249992134574", "s.whatsapp.net")
OwnerLidJid == Jid("88858947514543", "lid")

Chats == {GroupChat, PrivateChat, OwnerJid}
Participants == {Jid("u1", "s.whatsapp.net")}
Senders == Participants \cup {PrivateChat}

\* const isGroup = sender.endsWith('@g.us')
isGroup(sender) == sender.server = "g.us"

\* The conversation taken for the sender.
senderJidByChat(msg) == msg.remoteJid

\* const senderJid = isGroup ? msg.key.participant : sender
senderJidOf(msg) == IF isGroup(msg.remoteJid) THEN msg.participant ELSE msg.remoteJid

\* --------------------------------------------------------------------- text
\* A text is a sequence of one-character strings.
Whitespace == {" ", "\t", "\n"}

RECURSIVE TrimStart(_)
TrimStart(s) ==
    IF s # <<>> /\ Head(s) \in Whitespace THEN TrimStart(Tail(s)) ELSE s

RECURSIVE TrimEnd(_)
TrimEnd(s) ==
    IF s # <<>> /\ s[Len(s)] \in Whitespace
    THEN TrimEnd(SubSeq(s, 1, Len(s) - 1))
    ELSE s

\* String.prototype.trim
Trim(s) == TrimEnd(TrimStart(s))

\* text.startsWith(p)
StartsWith(s, p) == Len(s) >= Len(p) /\ SubSeq(s, 1, Len(p)) = p

LowerOf ==
    [c \in {"Q", "U", "I", "Z", "P"} |->
        CASE c = "Q" -> "q" [] c = "U" -> "u" [] c = "I" -> "i" [] c = "Z" -> "z"
          [] c = "P" -> "p"]

\* String.prototype.toLowerCase
ToLowerCase(s) ==
    [i \in 1..Len(s) |-> IF s[i] \in DOMAIN LowerOf THEN LowerOf[s[i]] ELSE s[i]]

\* The first token of s.split(/\s+/); s is already trimmed.
RECURSIVE FirstToken(_)
FirstToken(s) ==
    IF s = <<>> \/ Head(s) \in Whitespace
    THEN <<>>
    ELSE <<Head(s)>> \o FirstToken(Tail(s))

\* config.bot.prefix
prefix == << <<"/">> >>

\* s.split(/\s+/) of a trimmed s: <<>> stands for the one empty part of ''.
RECURSIVE Split(_)
Split(s) ==
    IF s = <<>>
    THEN <<>>
    ELSE LET first == FirstToken(s)
         IN  <<first>> \o Split(TrimStart(SubSeq(s, Len(first) + 1, Len(s))))

\* for (const p of prefixes) if (text.startsWith(p)) { usedPrefix = p; break; }
\* 0 when no prefix matches.
usedPrefixOf(text, prefixes) ==
    LET used == {i \in 1..Len(prefixes) : StartsWith(text, prefixes[i])}
    IN  IF used = {} THEN 0 ELSE CHOOSE i \in used : \A j \in used : i <= j

\* parseCommand with toLowerCase left out.
parseCommandAsTyped(text, prefixes) ==
    LET u == usedPrefixOf(text, prefixes)
    IN  IF u = 0
        THEN [command |-> <<>>, args |-> <<>>]
        ELSE LET parts == Split(Trim(SubSeq(text, Len(prefixes[u]) + 1, Len(text))))
             IN  IF parts = <<>>
                 THEN [command |-> <<>>, args |-> <<>>]
                 ELSE [command |-> parts[1], args |-> Tail(parts)]

\* parseCommand(text, prefix): { command, args }; a command of <<>> stands
\* for null and for '', which the dispatcher treats alike.
parseCommandWith(text, prefixes) ==
    LET u == usedPrefixOf(text, prefixes)
    IN  IF u = 0
        THEN [command |-> <<>>, args |-> <<>>]
        ELSE LET parts == Split(Trim(SubSeq(text, Len(prefixes[u]) + 1, Len(text))))
             IN  IF parts = <<>>
                 THEN [command |-> <<>>, args |-> <<>>]
                 ELSE [command |-> ToLowerCase(parts[1]), args |-> Tail(parts)]

\* parseCommand(text, config.bot.prefix).command
parseCommand(text) == parseCommandWith(text, prefix).command

\* ----------------------------------------------------------------- registry
VARIABLES
    commands,        \* const commands = new Map(): the command registry
    features,        \* config.features: respondToGroups, respondToPrivate
    quizPool,        \* let QUIZ_POOL: the questions collected at startup
    autoDuaa,        \* config.autoDuaa: enabled
    trackedChats,    \* Set of the chat JIDs tracked for broadcast
    seenUsers,       \* Set of the user JIDs that were welcomed
    parsed,          \* ParseSpec: the call of parseCommand and its result
    registered,      \* how many registrations of commands/index.js have run
    returned,        \* the last call of a function under study and its result
    chatsFile,       \* data/chats.json
    seenFile         \* data/seenUsers.json

NoCmd == [name |-> "", ownerOnly |-> FALSE, groupOnly |-> FALSE, privateOnly |-> FALSE]
QuizCmd == [name |-> "quiz", ownerOnly |-> FALSE, groupOnly |-> FALSE, privateOnly |-> FALSE]
HelpCmd == [name |-> "help", ownerOnly |-> FALSE, groupOnly |-> FALSE, privateOnly |-> FALSE]
StickerCmd ==
    [name |-> "sticker", ownerOnly |-> FALSE, groupOnly |-> FALSE, privateOnly |-> FALSE]
ChatStatsCmd ==
    [name |-> "chatstats", ownerOnly |-> TRUE, groupOnly |-> FALSE, privateOnly |-> FALSE]

\* registerCommand that leaves a key that is present as it is.
registerCommandKeepFirst(registry, name, aliases, commandData) ==
    [k \in DOMAIN registry \cup {name} \cup aliases |->
        IF k \in DOMAIN registry THEN registry[k] ELSE commandData]

\* registerCommand(name, options): the name and every alias are set to the
\* one descriptor.
registerCommand(registry, name, aliases, commandData) ==
    [k \in DOMAIN registry \cup {name} \cup aliases |->
        IF k \in {name} \cup aliases THEN commandData ELSE registry[k]]

\* The elements of an array.
Elements(array) == {array[i] : i \in DOMAIN array}

\* registerCommand called with the name, the aliases array and what the
\* options make of commandData.
Registration(name, aliases, cmdName, ownerOnly) ==
    [name |-> name, aliases |-> aliases,
     commandData |-> [name |-> cmdName, ownerOnly |-> ownerOnly, groupOnly |-> FALSE,
                      privateOnly |-> FALSE]]

\* The registrations that loading commands/index.js performs, in the order of
\* the file.  A key is written letter by letter; an Arabic letter is written
\* as its Unicode name, and a descriptor's Arabic name as the names joined.
Startup ==
 <<
    \* line 151
       Registration(<<"p", "i", "n", "g">>,
       << <<"beh", "noon", "qaf">>,
          <<"alef", "teh", "sad", "alef", "lam">> >>,
       "ping", FALSE),
    \* line 167
       Registration(<<"h", "e", "l", "p">>,
       << <<"meem", "seen", "alef", "ain", "dal", "teh_marbuta">>,
          <<"alef", "waw", "alef", "meem", "reh">>,
          <<"alef_with_hamza_above", "waw", "alef", "meem", "reh">>,
          <<"qaf", "reh", "alef", "noon">>,
          <<"beh", "waw", "teh">>,
          <<"alef_with_hamza_above">>,
          <<"alef">>,
          <<"meem">> >>,
       "help", FALSE),
    \* line 253
       Registration(<<"i", "n", "f", "o">>,
       << <<"meem", "ain", "lam", "waw", "meem", "alef", "teh">>,
          <<"ain", "noon">>,
          <<"hah", "waw", "lam">> >>,
       "info", FALSE),
    \* line 275
       Registration(<<"t", "i", "m", "e">>,
       << <<"waw", "qaf", "teh">>,
          <<"alef", "lam", "waw", "qaf", "teh">>,
          <<"seen", "alef", "ain", "teh_marbuta">> >>,
       "time", FALSE),
    \* line 289
       Registration(<<"e", "c", "h", "o">>,
       << <<"sad", "dal", "alef_maksura">>,
          <<"reh", "dal", "dal">>,
          <<"qaf", "lam">> >>,
       "echo", FALSE),
    \* line 308
       Registration(<<"s", "t", "i", "c", "k", "e", "r">>,
       << <<"meem", "lam", "sad", "qaf">>,
          <<"seen", "teh", "yeh", "kaf", "reh">>,
          <<"s">> >>,
       "sticker", FALSE),
    \* line 369
       Registration(<<"m", "e", "n", "u">>,
       << <<"qaf", "alef", "yeh_with_hamza_above", "meem", "teh_marbuta">>,
          <<"alef", "lam", "qaf", "alef", "yeh_with_hamza_above", "meem", "teh_marbuta">> >>,
       "menu", FALSE),
    \* line 381
       Registration(<<"b", "r", "o", "a", "d", "c", "a", "s", "t">>,
       << <<"alef", "thal", "alef", "ain", "teh_marbuta">>,
          <<"alef_with_hamza_below", "thal", "alef", "ain", "teh_marbuta">>,
          <<"beh", "theh">> >>,
       "broadcast", TRUE),
    \* line 453
       Registration(<<"c", "h", "a", "t", "s", "t", "a", "t", "s">>,
       << <<"alef", "hah", "sad", "alef", "yeh_with_hamza_above", "yeh", "alef", "teh">>,
          <<"alef_with_hamza_below", "hah", "sad", "alef", "yeh_with_hamza_above", "yeh", "alef", "teh">>,
          <<"s", "t", "a", "t", "s">> >>,
       "chatstats", TRUE),
    \* line 485
       Registration(<<"feh", "heh", "reh", "seen">>,
       << <<"qaf", "alef", "yeh_with_hamza_above", "meem", "teh_marbuta">>,
          <<"qaf", "alef", "yeh_with_hamza_above", "meem", "teh_marbuta", " ", "alef", "lam", "seen", "waw", "reh">>,
          <<"lam", "seen", "teh", "teh_marbuta">>,
          <<"alef", "lam", "seen", "waw", "reh">> >>,
       "feh-heh-reh-seen", FALSE),
    \* line 542
       Registration(<<"s", "u", "r", "a", "h">>,
       << <<"seen", "waw", "reh", "teh_marbuta">>,
          <<"seen", "waw", "reh", "heh">>,
          <<"seen", "waw", "reh", "heh">>,
          <<"seen", "waw", "reh">> >>,
       "surah", FALSE),
    \* line 602
       Registration(<<"teh", "lam", "alef", "waw", "teh_marbuta">>,
       << <<"sad", "waw", "teh">>,
          <<"teh", "lam", "alef", "waw", "heh">>,
          <<"qaf", "reh", "alef", "hamza", "teh_marbuta">>,
          <<"v", "o", "i", "c", "e">> >>,
       "teh-lam-alef-waw-teh_marbuta", FALSE),
    \* line 670
       Registration(<<"sad", "feh", "hah", "teh_marbuta">>,
       << <<"sad", "feh", "hah", "heh">>,
          <<"reh", "qaf", "meem">>,
          <<"sad">> >>,
       "sad-feh-hah-teh_marbuta", FALSE),
    \* line 699
       Registration(<<"alef_with_madda_above", "yeh", "teh_marbuta">>,
       << <<"alef", "yeh", "teh_marbuta">>,
          <<"a", "y", "a">>,
          <<"alef_with_madda_above", "yeh", "heh">>,
          <<"alef", "yeh", "heh">> >>,
       "alef_with_madda_above-yeh-teh_marbuta", FALSE),
    \* line 733
       Registration(<<"hah", "dal", "yeh", "theh">>,
       << <<"beh", "khah", "alef", "reh", "yeh">>,
          <<"seen", "noon", "teh_marbuta">>,
          <<"h", "a", "d", "i", "t", "h">>,
          <<"alef", "lam", "hah", "dal", "yeh", "theh">> >>,
       "hah-dal-yeh-theh", FALSE),
    \* line 782
       Registration(<<"seen", "waw_with_hamza_above", "alef", "lam">>,
       << <<"alef_with_hamza_above", "seen", "yeh_with_hamza_above", "lam", "teh_marbuta">>,
          <<"meem", "seen", "alef", "beh", "qaf", "teh_marbuta">>,
          <<"q", "u", "i", "z">>,
          <<"alef", "khah", "teh", "beh", "alef", "reh">>,
          <<"feh", "waw", "alef", "zain", "yeh", "reh">>,
          <<"feh", "zain", "waw", "reh", "teh_marbuta">> >>,
       "seen-waw_with_hamza_above-alef-lam", FALSE)
 >>

\* The keys of one registration.
KeysOf(reg) == {reg.name} \cup Elements(reg.aliases)

\* The array with, of the elements that have the same key, the first one
\* only; keys[i] is the key of array[i].
KeepFirst(array, keys) ==
    LET kept == {i \in DOMAIN array : \A j \in 1..(i - 1) : keys[j] # keys[i]}
    IN  [k \in 1..Cardinality(kept) |->
            array[CHOOSE i \in kept : Cardinality({j \in kept : j <= i}) = k]]

\* The keys that the first n registrations set, in the order of the calls of
\* commands.set.
RECURSIVE keysSet(_)
keysSet(n) ==
    IF n = 0 THEN <<>>
    ELSE keysSet(n - 1) \o <<Startup[n].name>> \o Startup[n].aliases

\* The Map's key order after the first n registrations: commands.set puts a
\* new key last and leaves a key that is present in its place.
entriesAfter(n) == KeepFirst(keysSet(n), keysSet(n))

\* Array.from(commands.values()): one element for every key.
getCommandValues(registry, order) == [i \in DOMAIN order |-> registry[order[i]]]

\* getUniqueCommands(): commands.forEach(cmd => { if (!seen.has(cmd.name)) {
\* seen.add(cmd.name); uniqueCmds.push(cmd) } })
getUniqueCommands(registry, order) ==
    LET values == [i \in DOMAIN order |-> registry[order[i]]]
    IN  KeepFirst(values, [i \in DOMAIN values |-> values[i].name])

\* The registry after the registrations of commands/index.js, restricted to
\* the names written in Latin letters that the events below use.
ShippedCommands ==
    LET r0 == [k \in {} |-> NoCmd]
        r1 == registerCommand(r0, <<"h", "e", "l", "p">>, {}, HelpCmd)
        r2 == registerCommand(r1, <<"s", "t", "i", "c", "k", "e", "r">>, { <<"s">> },
                              StickerCmd)
        r3 == registerCommand(r2, <<"c", "h", "a", "t", "s", "t", "a", "t", "s">>,
                              { <<"s", "t", "a", "t", "s">> }, ChatStatsCmd)
    IN  registerCommand(r3, <<"q", "u", "i", "z">>, {}, QuizCmd)

\* getCommand falling back to the help command for an unknown name.
getCommandOrHelp(name) == IF name \in DOMAIN commands THEN commands[name] ELSE HelpCmd

\* getCommand(name) == commands.get(name); NoCmd stands for undefined.
getCommand(name) == IF name \in DOMAIN commands THEN commands[name] ELSE NoCmd

\* --------------------------------------------------------------- quiz pool
Ans(text, t) == [answer |-> text, t |-> t]
Question(q, answers) == [q |-> q, answers |-> answers]
NoQuestion == Question("", <<>>)

\* Questions of data/quiz.json: three choices, one of them marked t = 1.
QUIZ_POOL ==
    << Question("Q1", <<Ans("a1", 0), Ans("b1", 1), Ans("c1", 0)>>),
       Question("Q2", <<Ans("a2", 0), Ans("b2", 0), Ans("c2", 1)>>) >>

\* answers.findIndex(a => a.t === 1), zero-based, -1 when there is none
RECURSIVE findIndexFrom(_, _)
findIndexFrom(answers, i) ==
    IF i > Len(answers) THEN -1
    ELSE IF answers[i].t = 1 THEN i - 1
    ELSE findIndexFrom(answers, i + 1)

findIndex(answers) == findIndexFrom(answers, 1)

\* answers.find(a => a.t === 1)?.answer
findAnswer(answers) ==
    LET i == findIndex(answers) IN IF i = -1 THEN "undefined" ELSE answers[i + 1].answer

\* const correctNum = answers.findIndex(a => a.t === 1) + 1
correctNumOf(question) == findIndex(question.answers) + 1

\* parseInt(answer, 10) of an accepted answer token
DigitValue == [d \in {"1", "2", "3"} |-> CASE d = "1" -> 1 [] d = "2" -> 2 [] d = "3" -> 3]
parseInt(answer) == DigitValue[answer[1]]

ChoiceIndexOffByOne(answer) == parseInt(answer)

\* const choiceIndex = parseInt(answer, 10) - 1
choiceIndexOf(answer) == parseInt(answer) - 1

\* const isCorrect = session.question.answers[choiceIndex]?.t === 1
isCorrectChoice(question, choiceIndex) ==
    /\ choiceIndex + 1 \in DOMAIN question.answers
    /\ question.answers[choiceIndex + 1].t = 1

\* answer === '1' || answer === '2' || answer === '3'
IsAnswerToken(answer) == answer \in { <<"1">>, <<"2">>, <<"3">> }

\* ------------------------------------------------------------ page numbers
Digits == {"0", "1", "2", "3", "4", "5", "6", "7", "8", "9"}
DigitOf ==
    [d \in Digits |->
        CASE d = "0" -> 0 [] d = "1" -> 1 [] d = "2" -> 2 [] d = "3" -> 3 [] d = "4" -> 4
          [] d = "5" -> 5 [] d = "6" -> 6 [] d = "7" -> 7 [] d = "8" -> 8 [] d = "9" -> 9]

\* /^\d+$/.test(input)
IsDigits(input) == input # <<>> /\ \A i \in DOMAIN input : input[i] \in Digits

\* parseInt(input, 10) of a string of digits
RECURSIVE parseDecimal(_)
parseDecimal(input) ==
    IF input = <<>> THEN 0
    ELSE 10 * parseDecimal(SubSeq(input, 1, Len(input) - 1)) + DigitOf[input[Len(input)]]

\* isValidPageNumber without the range check.
isValidPageNumberAnyNumber(input) == IsDigits(input)

\* isValidPageNumber(input)
isValidPageNumber(input) ==
    /\ IsDigits(input)
    /\ LET num == parseDecimal(input) IN num >= 1 /\ num <= 604

\* The auto-trigger on a plain page number, as it was before it was
\* commented out.
autoTriggerEnabled(text) == isValidPageNumber(Trim(text))

\* Auto-trigger: the block is a comment, it runs for no text.
autoTrigger(text) == FALSE

\* -------------------------------------------------------------------- state
VARIABLES
    quizSessions,    \* Map<chatJid, {question, timer}>
    timers,          \* the runtime's armed setTimeout callbacks
    nextTimer,       \* the next timer handle setTimeout returns
    handlers,        \* the messages.upsert handlers in flight (a bag)
    sent,            \* what the last step handed to sock.sendMessage
    messageTracker,  \* Map<senderJid, userData>
    now,             \* Date.now()
    received,        \* number of inbound events delivered so far
    issuedAt,        \* history: when the stored session's question was sent
    phase,           \* history: what last happened to the chat's session
    lastCheck,       \* history of RateSpec: the last isSpamming call
    window           \* history of RateSpec: each sender's window and block

\* The registry, the configuration and the persisted sets.
dispatchVars == <<commands, features, quizPool, autoDuaa, trackedChats, seenUsers, parsed,
                  registered, returned, chatsFile, seenFile>>

vars == <<quizSessions, timers, nextTimer, handlers, sent, messageTracker, now,
          received, issuedAt, phase, lastCheck, window, commands, features, quizPool,
          autoDuaa, trackedChats, seenUsers, parsed, registered, returned, chatsFile,
          seenFile>>

NoSession == [question |-> NoQuestion, timer |-> 0]
NoMsg == [remoteJid |-> NoJid, participant |-> NoJid, text |-> <<>>]

\* A handler in flight: where it is suspended, its event and, in the quiz
\* command, the question drawn and when it was sent.
Handler(pc, msg, question, issued) ==
    [pc |-> pc, msg |-> msg, question |-> question, issued |-> issued]

\* The handler r goes on as r2 / returns.
Resume(bag, r, r2) == (bag (-) SetToBag({r})) (+) SetToBag({r2})
Return(bag, r) == bag (-) SetToBag({r})

\* quizSessions.has(sender)
HasSession(sessions, sender) == sessions[sender] # NoSession

Texts ==
    { <<" ", "2", " ">>, <<"3">>, <<"4">>, <<"/", "Q", "u", "i", "z">> }

\* Inbound events: a group event names its participant, a direct one does not.
Messages ==
    { [remoteJid |-> GroupChat, participant |-> p, text |-> t] :
        p \in Participants, t \in Texts }
    \cup { [remoteJid |-> PrivateChat, participant |-> NoJid, text |-> t] : t \in Texts }

\* Every key messageTracker can hold.
Identities == Senders \cup Chats \cup {OwnerJid, OwnerLidJid}

\* /[\u0600-\u06FF]/: "alef" stands for a letter of the Arabic block.
ArabicLetters == {"alef"}
ARABIC_REGEX(text) == \E i \in DOMAIN text : text[i] \in ArabicLetters

\* ------------------------------------------------------- the persisted sets
\* data/chats.json and data/seenUsers.json: missing, not parseable as JSON,
\* or the object that saveChats / saveSeenUsers writes; ids is its chats /
\* users array (lastUpdated is left out: nothing reads it).
NoFile == [kind |-> "none", count |-> 0, ids |-> <<>>]
Torn == [kind |-> "torn", count |-> 0, ids |-> <<>>]
Data(count, ids) == [kind |-> "json", count |-> count, ids |-> ids]

\* What fs.writeFileSync (with ensureDataDir before it) can do: write the
\* file, throw with the file as it was, throw with the file cut short.
WriteOutcomes == {"written", "failed", "torn"}

\* What fs.readFileSync (with ensureDataDir and fs.existsSync before it) can
\* do: read the file, or throw.
ReadOutcomes == {"read", "failed"}

\* Array.from(set) without its last element.
ArrayFromAllButLast(set) ==
    IF set = {} THEN <<>>
    ELSE LET last == CHOOSE x \in set : TRUE
         IN  CHOOSE array \in [1..(Cardinality(set) - 1) -> set \ {last}] :
                Elements(array) = set \ {last}

\* Array.from(set): every element once, in an order of the set's own.
ArrayFrom(set) ==
    CHOOSE array \in [1..Cardinality(set) -> set] : Elements(array) = set

\* saveChats without its try / catch.
saveChatsUncaught(file, chats, outcome) ==
    CASE outcome = "written" ->
            [file |-> Data(Cardinality(chats), ArrayFrom(chats)), threw |-> FALSE,
             logged |-> FALSE]
      [] outcome = "failed" -> [file |-> file, threw |-> TRUE, logged |-> FALSE]
      [] outcome = "torn" -> [file |-> Torn, threw |-> TRUE, logged |-> FALSE]

\* saveChats(chats): the file afterwards, whether the call threw, whether
\* console.error was called.
saveChats(file, chats, outcome) ==
    CASE outcome = "written" ->
            [file |-> Data(Cardinality(chats), ArrayFrom(chats)), threw |-> FALSE,
             logged |-> FALSE]
      [] outcome = "failed" -> [file |-> file, threw |-> FALSE, logged |-> TRUE]
      [] outcome = "torn" -> [file |-> Torn, threw |-> FALSE, logged |-> TRUE]

\* saveSeenUsers(users): the same code on the other file.
saveSeenUsers(file, users, outcome) == saveChats(file, users, outcome)

\* loadChats(): the Set returned, whether the call threw, whether
\* console.error was called.  JSON.parse throws on a file cut short.
loadChats(file, outcome) ==
    IF file.kind = "none" /\ outcome = "read"
    THEN [set |-> {}, threw |-> FALSE, logged |-> FALSE]
    ELSE IF file.kind = "json" /\ outcome = "read"
    THEN [set |-> Elements(file.ids), threw |-> FALSE, logged |-> FALSE]
    ELSE [set |-> {}, threw |-> FALSE, logged |-> TRUE]

\* loadSeenUsers(): the same code on the other file.
loadSeenUsers(file, outcome) == loadChats(file, outcome)

\* removeChat(chats, chatJid): exported, and called by nothing.
removeChat(chats, chatJid) == chats \ {chatJid}

\* addChat(trackedChats, sender)
addChat(chats, chatJid) == chats \cup {chatJid}

\* What addChat's saveChats does, called on the chats after the add.
addChatSaves(file, chats, chatJid, outcome) ==
    IF chatJid \in chats
    THEN [file |-> file, threw |-> FALSE, logged |-> FALSE]
    ELSE saveChats(file, addChat(chats, chatJid), outcome)

\* isNewUser without seenUsers.add(userJid).
isNewUserUnmarked(users, userJid) ==
    IF userJid \in users THEN <<FALSE, users>> ELSE <<TRUE, users>>

\* isNewUser(seenUsers, userJid): <<returned value, the set afterwards>>
isNewUser(users, userJid) ==
    IF userJid \in users THEN <<FALSE, users>> ELSE <<TRUE, users \cup {userJid}>>

\* What isNewUser's saveSeenUsers does, called on the users after the add.
isNewUserSaves(file, users, userJid, outcome) ==
    IF userJid \in users
    THEN [file |-> file, threw |-> FALSE, logged |-> FALSE]
    ELSE saveSeenUsers(file, isNewUser(users, userJid)[2], outcome)

\* if (!isGroup && isNewUser(seenUsers, senderJid)): the set afterwards
seenAfter(users, msg) ==
    IF isGroup(msg.remoteJid) THEN users ELSE isNewUser(users, senderJidOf(msg))[2]

\* ... and the file afterwards.
seenFileAfter(file, users, msg, outcome) ==
    IF isGroup(msg.remoteJid) THEN file
    ELSE isNewUserSaves(file, users, senderJidOf(msg), outcome).file

\* ... and whether the welcome is due (the help command is registered).
WelcomeDue(users, msg) ==
    /\ ~isGroup(msg.remoteJid)
    /\ isNewUser(users, senderJidOf(msg))[1]
    /\ getCommand(<<"h", "e", "l", "p">>) # NoCmd

\* ------------------------------------------------------------- rate limiter
NoData == [count |-> 0, firstMessage |-> -1, blocked |-> FALSE, blockedUntil |-> 0]

\* isSpamming with >= in place of > at the limit.
isSpammingAtLimit(tracker, sender, t) ==
    LET userData == IF tracker[sender] # NoData
                    THEN tracker[sender]
                    ELSE [count |-> 0, firstMessage |-> t, blocked |-> FALSE, blockedUntil |-> 0]
    IN  IF userData.blocked /\ t < userData.blockedUntil
        THEN <<TRUE, tracker>>
        ELSE LET u1 == IF userData.blocked
                       THEN [userData EXCEPT !.blocked = FALSE, !.count = 0]
                       ELSE userData
                 u2 == IF t - u1.firstMessage > interval
                       THEN [u1 EXCEPT !.count = 0, !.firstMessage = t]
                       ELSE u1
                 u3 == [u2 EXCEPT !.count = u2.count + 1]
             IN  IF u3.count >= maxMessages
                 THEN <<TRUE, [tracker EXCEPT ![sender] =
                                  [u3 EXCEPT !.blocked = TRUE, !.blockedUntil = t + blockDuration]]>>
                 ELSE <<FALSE, [tracker EXCEPT ![sender] = u3]>>

\* isSpamming without the test of the block's end.
isSpammingNoExpiry(tracker, sender, t) ==
    LET userData == IF tracker[sender] # NoData
                    THEN tracker[sender]
                    ELSE [count |-> 0, firstMessage |-> t, blocked |-> FALSE, blockedUntil |-> 0]
    IN  IF userData.blocked
        THEN <<TRUE, tracker>>
        ELSE LET u2 == IF t - userData.firstMessage > interval
                       THEN [userData EXCEPT !.count = 0, !.firstMessage = t]
                       ELSE userData
                 u3 == [u2 EXCEPT !.count = u2.count + 1]
             IN  IF u3.count > maxMessages
                 THEN <<TRUE, [tracker EXCEPT ![sender] =
                                  [u3 EXCEPT !.blocked = TRUE, !.blockedUntil = t + blockDuration]]>>
                 ELSE <<FALSE, [tracker EXCEPT ![sender] = u3]>>

\* isSpamming counting the attempts made during a block and restarting the
\* block at each of them.
isSpammingExtendsBlock(tracker, sender, t) ==
    LET userData == IF tracker[sender] # NoData
                    THEN tracker[sender]
                    ELSE [count |-> 0, firstMessage |-> t, blocked |-> FALSE, blockedUntil |-> 0]
    IN  IF userData.blocked /\ t < userData.blockedUntil
        THEN <<TRUE, [tracker EXCEPT ![sender] =
                         [userData EXCEPT !.count = userData.count + 1,
                                          !.blockedUntil = t + blockDuration]]>>
        ELSE LET u1 == IF userData.blocked
                       THEN [userData EXCEPT !.blocked = FALSE, !.count = 0]
                       ELSE userData
                 u2 == IF t - u1.firstMessage > interval
                       THEN [u1 EXCEPT !.count = 0, !.firstMessage = t]
                       ELSE u1
                 u3 == [u2 EXCEPT !.count = u2.count + 1]
             IN  IF u3.count > maxMessages
                 THEN <<TRUE, [tracker EXCEPT ![sender] =
                                  [u3 EXCEPT !.blocked = TRUE, !.blockedUntil = t + blockDuration]]>>
                 ELSE <<FALSE, [tracker EXCEPT ![sender] = u3]>>

\* isSpamming(sender) at time t: <<returned value, userData as stored>>
isSpamming(tracker, sender, t) ==
    LET userData == IF tracker[sender] # NoData
                    THEN tracker[sender]
                    ELSE [count |-> 0, firstMessage |-> t, blocked |-> FALSE, blockedUntil |-> 0]
    IN  IF userData.blocked /\ t < userData.blockedUntil
        THEN <<TRUE, tracker>>
        ELSE LET u1 == IF userData.blocked
                       THEN [userData EXCEPT !.blocked = FALSE, !.count = 0]
                       ELSE userData
                 u2 == IF t - u1.firstMessage > interval
                       THEN [u1 EXCEPT !.count = 0, !.firstMessage = t]
                       ELSE u1
                 u3 == [u2 EXCEPT !.count = u2.count + 1]
             IN  IF u3.count > maxMessages
                 THEN <<TRUE, [tracker EXCEPT ![sender] =
                                  [u3 EXCEPT !.blocked = TRUE, !.blockedUntil = t + blockDuration]]>>
                 ELSE <<FALSE, [tracker EXCEPT ![sender] = u3]>>

\* config.bot.owner, config.bot.ownerLid
owner == "249992134574"
ownerLid == "88858947514543"

\* const isOwner = isLid ? senderId === config.bot.ownerLid : senderId === config.bot.owner
isOwner(senderJid) ==
    IF senderJid.server = "lid" THEN senderJid.id = ownerLid ELSE senderJid.id = owner

\* The permission checks with the scope checks before the owner check.
DenialScopeFirst(cmd, msg) ==
    IF cmd.groupOnly /\ ~isGroup(msg.remoteJid) THEN "groupOnly"
    ELSE IF cmd.privateOnly /\ isGroup(msg.remoteJid) THEN "privateOnly"
    ELSE IF cmd.ownerOnly /\ ~isOwner(senderJidOf(msg)) THEN "ownerOnly"
    ELSE ""

\* The permission checks in their order: the denial sent, "" when all pass.
Denial(cmd, msg) ==
    IF cmd.ownerOnly /\ ~isOwner(senderJidOf(msg)) THEN "ownerOnly"
    ELSE IF cmd.groupOnly /\ ~isGroup(msg.remoteJid) THEN "groupOnly"
    ELSE IF cmd.privateOnly /\ isGroup(msg.remoteJid) THEN "privateOnly"
    ELSE ""

\* ----------------------------------------------------------------- outbound
\* One call of sock.sendMessage(to, ...).  session is the timer handle of the
\* session the sending path removed from the store (0: none); by is the timer
\* whose callback sent it (0: a message handler sent it); choice is the number
\* the user sent, num and answer the number and the text the report names.
Out(to, kind, session, by, question, choice, num, answer) ==
    [to |-> to, kind |-> kind, session |-> session, by |-> by, question |-> question,
     choice |-> choice, num |-> num, answer |-> answer]

Notice(to, kind) == Out(to, kind, 0, 0, NoQuestion, 0, 0, "")

\* sock.sendMessage(sender, { image: jpegBuffer, caption: ... num ... })
Page(to, num) == Out(to, "page", 0, 0, NoQuestion, 0, num, "")

DeleteForgotten(sessions, sender) == sessions

\* quizSessions.clear()
clearSessions(sessions, sender) == [c \in DOMAIN sessions |-> NoSession]

\* quizSessions.delete(sender)
deleteSession(sessions, sender) == [sessions EXCEPT ![sender] = NoSession]

\* clearTimeout(timer)
clearTimeout(armed, timer) == {t \in armed : t.id # timer}

AnswerInterceptedUntrimmed(sessions, msg) ==
    HasSession(sessions, msg.remoteJid) /\ IsAnswerToken(msg.text)

\* The interceptor behind the rate limiter's block.
AnswerInterceptedUnlessBlocked(sessions, msg) ==
    /\ HasSession(sessions, msg.remoteJid)
    /\ IsAnswerToken(Trim(msg.text))
    /\ ~(messageTracker[senderJidOf(msg)].blocked
          /\ now < messageTracker[senderJidOf(msg)].blockedUntil)

\* if (quizSessions.has(sender)) { ... if (answer === '1' || ...) }
AnswerIntercepted(sessions, msg) ==
    HasSession(sessions, msg.remoteJid) /\ IsAnswerToken(Trim(msg.text))

DoubleQuizUnguarded(sessions, sender) == FALSE

\* Block double-quiz in same chat: if (quizSessions.has(sender))
DoubleQuiz(sessions, sender) == HasSession(sessions, sender)

\* if (!quizSessions.has(sender)) return;   (negated: the callback goes on)
TimerFindsSession(sessions, sender) == HasSession(sessions, sender)

\* The answer report of the interceptor.
AnswerReport(sender, session, answer) ==
    LET choiceIndex == choiceIndexOf(answer)
        correctAnswer == findAnswer(session.question.answers)
        correctNum == correctNumOf(session.question)
    IN  IF isCorrectChoice(session.question, choiceIndex)
        THEN Out(sender, "correct", session.timer, 0, session.question,
                 parseInt(answer), 0, correctAnswer)
        ELSE Out(sender, "wrong", session.timer, 0, session.question,
                 parseInt(answer), correctNum, correctAnswer)

\* -------------------------------------------------------------------- Init
NoCheck == [sender |-> NoJid, at |-> 0, result |-> FALSE, wasBlocked |-> FALSE,
            expired |-> FALSE]
NoWindow == [start |-> 0, n |-> 0, blockedAt |-> -1]

\* config.features as shipped
ShippedFeatures == [respondToGroups |-> TRUE, respondToPrivate |-> TRUE]

\* config.autoDuaa as shipped (probability decides nothing but the odds)
ShippedAutoDuaa == [enabled |-> TRUE]

NoParse == [text |-> <<>>, prefixes |-> <<>>, command |-> <<>>, args |-> <<>>]

\* No call of a function under study was made yet.
NoReturn == [call |-> "none"]

\* The file each persisted set was last saved to, when no write failed.
Saved(set) == IF set = {} THEN NoFile ELSE saveChats(NoFile, set, "written").file

\* The bot has run before: loadChats() and loadSeenUsers() return the chats
\* and the users of the earlier runs; pool is what the startup collected
\* from data/quiz.json.
Started(pool) ==
    /\ quizSessions = [c \in Chats |-> NoSession]
    /\ timers = {}
    /\ nextTimer = 1
    /\ handlers = EmptyBag
    /\ sent = <<>>
    /\ messageTracker = [s \in Identities |-> NoData]
    /\ now = 0
    /\ received = 0
    /\ issuedAt = [c \in Chats |-> -1]
    /\ phase = [c \in Chats |-> "NONE"]
    /\ lastCheck = NoCheck
    /\ window = [s \in Senders |-> NoWindow]
    /\ commands = ShippedCommands
    /\ features = ShippedFeatures
    /\ quizPool = pool
    /\ autoDuaa = ShippedAutoDuaa
    /\ trackedChats = Chats
    /\ seenUsers = {PrivateChat, OwnerJid}
    /\ parsed = NoParse
    /\ registered = Len(Startup)
    /\ returned = NoReturn
    /\ chatsFile = Saved(trackedChats)
    /\ seenFile = Saved(seenUsers)

\* data/quiz.json was read and flattened.
Init == Started(QUIZ_POOL)

\* let QUIZ_POOL = []; try { ... } catch (e) { logger.error(...) }: the pool
\* is empty when data/quiz.json cannot be read or parsed, or holds no question.
Pools == {QUIZ_POOL, <<>>}

\* The start of the bot, data/quiz.json readable or not.
QuizInit == \E pool \in Pools : Started(pool)

\* ----------------------------------------------------------------- actions
\* messages.upsert delivers an event; its handler runs up to the awaits that
\* precede the quiz interceptor.
Receive(msg) ==
    /\ BagCardinality(handlers) < MaxHandlers
    /\ received < MaxMsgs
    /\ received' = received + 1
    /\ handlers' = handlers (+) SetToBag({Handler("classify", msg, NoQuestion, 0)})
    /\ sent' = <<>>
    /\ UNCHANGED <<quizSessions, timers, nextTimer, messageTracker, now, issuedAt,
                   phase, lastCheck, window>>
    /\ UNCHANGED dispatchVars

\* The quiz answer interceptor, parseCommand, getCommand, isSpamming and the
\* permission checks for the event msg, up to the next await.  The handler
\* bags are what becomes of the handlers when the event is consumed as an
\* answer (onReport), when the loop continues without a send (onContinue),
\* when a denial is sent (onDenial) and when the command is to be executed
\* (onTyping).
Dispatch(msg, onReport, onContinue, onDenial, onTyping) ==
    LET sender == msg.remoteJid
    IN  IF AnswerIntercepted(quizSessions, msg)
        THEN LET session == quizSessions[sender]
             IN  /\ timers' = clearTimeout(timers, session.timer)
                 /\ quizSessions' = deleteSession(quizSessions, sender)
                 /\ issuedAt' = [issuedAt EXCEPT ![sender] = -1]
                 /\ phase' = [phase EXCEPT ![sender] = "ANSWERED"]
                 /\ sent' = <<AnswerReport(sender, session, Trim(msg.text))>>
                 /\ handlers' = onReport
                 /\ UNCHANGED messageTracker
        ELSE IF autoTrigger(msg.text)
        THEN /\ sent' = <<Page(sender, parseDecimal(Trim(msg.text)))>>
             /\ handlers' = onDenial
             /\ UNCHANGED <<quizSessions, timers, issuedAt, phase, messageTracker>>
        ELSE LET command == parseCommand(msg.text)
                 cmd == getCommand(command)
                 spam == isSpamming(messageTracker, senderJidOf(msg), now)
             IN  IF command = <<>> \/ cmd = NoCmd
                 THEN /\ handlers' = onContinue
                      /\ sent' = <<>>
                      /\ UNCHANGED <<quizSessions, timers, issuedAt, phase, messageTracker>>
                 ELSE /\ messageTracker' = spam[2]
                      /\ UNCHANGED <<quizSessions, timers, issuedAt, phase>>
                      /\ IF spam[1]
                         THEN /\ handlers' = onContinue
                              /\ sent' = <<>>
                         ELSE IF Denial(cmd, msg) # ""
                         THEN /\ sent' = <<Notice(sender, Denial(cmd, msg))>>
                              /\ handlers' = onDenial
                         ELSE /\ handlers' = onTyping
                              /\ sent' = <<>>

\* The event consumed as an answer goes on to the execution of a command.
AnswerFallsThrough(bag, r) ==
    Resume(bag, r, Handler("typing", [r.msg EXCEPT !.text = <<>>], NoQuestion, 0))

\* continue, after the answer report
AnswerDone(bag, r) == Return(bag, r)

\* addChat, isNewUser (no welcome is due: the sender was welcomed before; no
\* ambient reply is due: the text has no Arabic letter), then the dispatch up
\* to the await of the typing indicator.  The event is the only one of its
\* batch, and its text is not read again after parsing.
Classify(r) ==
    /\ BagIn(r, handlers)
    /\ r.pc = "classify"
    /\ ~WelcomeDue(seenUsers, r.msg)
    /\ ~(autoDuaa.enabled /\ ARABIC_REGEX(r.msg.text))
    /\ trackedChats' = addChat(trackedChats, r.msg.remoteJid)
    /\ chatsFile' = addChatSaves(chatsFile, trackedChats, r.msg.remoteJid, "written").file
    /\ seenUsers' = seenAfter(seenUsers, r.msg)
    /\ seenFile' = seenFileAfter(seenFile, seenUsers, r.msg, "written")
    /\ Dispatch(r.msg, AnswerDone(handlers, r), Return(handlers, r), Return(handlers, r),
                Resume(handlers, r,
                       Handler("typing", [r.msg EXCEPT !.text = <<>>], NoQuestion, 0)))
    /\ UNCHANGED <<nextTimer, now, received, lastCheck, window>>
    /\ UNCHANGED <<commands, features, quizPool, autoDuaa, parsed, registered, returned>>

\* The quiz command's execute, up to the await of its first send.
Execute(r) ==
    /\ BagIn(r, handlers)
    /\ r.pc = "typing"
    /\ LET sender == r.msg.remoteJid
       IN  IF Len(quizPool) = 0
           THEN /\ sent' = <<Notice(sender, "noPool")>>
                /\ handlers' = Return(handlers, r)
           ELSE IF DoubleQuiz(quizSessions, sender)
           THEN /\ sent' = <<Notice(sender, "pending")>>
                /\ handlers' = Return(handlers, r)
           ELSE \E i \in 1..Len(quizPool) :
                /\ sent' = <<Out(sender, "question", 0, 0, quizPool[i], 0, 0, "")>>
                /\ handlers' = Resume(handlers, r,
                                      Handler("awaitQuestion", r.msg, quizPool[i], now))
    /\ UNCHANGED <<quizSessions, timers, nextTimer, messageTracker, now, received,
                   issuedAt, phase, lastCheck, window>>
    /\ UNCHANGED dispatchVars

\* setTimeout(callback, 30_000): the callback closes over sender and question.
setTimeout(armed, id, sender, question, t) ==
    armed \cup {[id |-> id, sender |-> sender, question |-> question,
                 deadline |-> t + QUIZ_TIMEOUT]}

\* The question was sent: arm the 30 s timer and store the session.
QuizStore(r) ==
    /\ BagIn(r, handlers)
    /\ r.pc = "awaitQuestion"
    /\ LET sender == r.msg.remoteJid
           question == r.question
       IN  /\ timers' = setTimeout(timers, nextTimer, sender, question, now)
           /\ quizSessions' = [quizSessions EXCEPT ![sender] =
                                  [question |-> question, timer |-> nextTimer]]
           /\ issuedAt' = [issuedAt EXCEPT ![sender] = r.issued]
           /\ phase' = [phase EXCEPT ![sender] = "ACTIVE"]
    /\ nextTimer' = nextTimer + 1
    /\ handlers' = Return(handlers, r)
    /\ sent' = <<>>
    /\ UNCHANGED <<messageTracker, now, received, lastCheck, window>>
    /\ UNCHANGED dispatchVars

\* The session stored and the timer armed before the send is awaited.
QuizSendFailStores(r) ==
    /\ BagIn(r, handlers)
    /\ r.pc = "awaitQuestion"
    /\ timers' = setTimeout(timers, nextTimer, r.msg.remoteJid, r.question, now)
    /\ quizSessions' = [quizSessions EXCEPT ![r.msg.remoteJid] =
                           [question |-> r.question, timer |-> nextTimer]]
    /\ nextTimer' = nextTimer + 1
    /\ sent' = <<Notice(r.msg.remoteJid, "failure")>>
    /\ handlers' = Return(handlers, r)
    /\ UNCHANGED <<messageTracker, now, received, issuedAt, phase, lastCheck, window>>
    /\ UNCHANGED dispatchVars

\* Sending the question failed: execute throws, the dispatcher's catch sends
\* the generic failure notice.
QuizSendFail(r) ==
    /\ BagIn(r, handlers)
    /\ r.pc = "awaitQuestion"
    /\ sent' = <<Notice(r.msg.remoteJid, "failure")>>
    /\ handlers' = Return(handlers, r)
    /\ UNCHANGED <<quizSessions, timers, nextTimer, messageTracker, now, received,
                   issuedAt, phase, lastCheck, window>>
    /\ UNCHANGED dispatchVars

\* All timers have the same delay, so the runtime runs their callbacks in the
\* order they were armed, none before its delay has passed.
Due(armed, t, clock) ==
    /\ t \in armed
    /\ t.deadline <= clock
    /\ \A u \in armed : u.id >= t.id

\* The callback of an armed timer runs.
TimerFire(t) ==
    /\ Due(timers, t, now)
    /\ timers' = timers \ {t}
    /\ IF TimerFindsSession(quizSessions, t.sender)
       THEN /\ quizSessions' = deleteSession(quizSessions, t.sender)
            /\ issuedAt' = [issuedAt EXCEPT ![t.sender] = -1]
            /\ phase' = [phase EXCEPT ![t.sender] = "EXPIRED"]
            /\ sent' = <<Out(t.sender, "timeup", quizSessions[t.sender].timer,
                             t.id, t.question, 0, correctNumOf(t.question),
                             findAnswer(t.question.answers))>>
       ELSE /\ sent' = <<>>
            /\ UNCHANGED <<quizSessions, issuedAt, phase>>
    /\ UNCHANGED <<nextTimer, handlers, messageTracker, now, received, lastCheck, window>>
    /\ UNCHANGED dispatchVars

\* Time passes.
Tick ==
    /\ now + TickMs <= MaxNow
    /\ now' = now + TickMs
    /\ sent' = <<>>
    /\ UNCHANGED <<quizSessions, timers, nextTimer, handlers, messageTracker,
                   received, issuedAt, phase, lastCheck, window>>
    /\ UNCHANGED dispatchVars

Next ==
    \/ \E msg \in Messages : Receive(msg)
    \/ \E r \in BagToSet(handlers) : Classify(r)
    \/ \E r \in BagToSet(handlers) : Execute(r)
    \/ \E r \in BagToSet(handlers) : QuizStore(r)
    \/ \E r \in BagToSet(handlers) : QuizSendFail(r)
    \/ \E t \in timers : TimerFire(t)
    \/ Tick

Spec == QuizInit /\ [][Next]_vars

\* ---------------------------------------------------------------- RateSpec
\* The rate limiter alone: qualifying events of a sender (resolved commands,
\* each one call of isSpamming) and the passing of time.

\* History, kept apart from userData: w.start and w.n are the time of the
\* first event of the sender's current window and the number of events in
\* it, w.blockedAt the time a block was imposed (-1: none).
IsBlockedAt(w, t) == w.blockedAt >= 0 /\ t < w.blockedAt + 300000
HasExpiredAt(w, t) == w.blockedAt >= 0 /\ t >= w.blockedAt + 300000

Counted(w, t, result) ==
    IF IsBlockedAt(w, t)
    THEN w
    ELSE [start |-> IF HasExpiredAt(w, t) \/ w.n = 0 \/ t - w.start > 60000
                    THEN t ELSE w.start,
          n |-> IF HasExpiredAt(w, t) \/ w.n = 0 \/ t - w.start > 60000
                THEN 1 ELSE w.n + 1,
          blockedAt |-> IF result THEN t ELSE -1]

\* A resolved command of sender: if (isSpamming(senderJid)) ...
SpamCheck(sender) ==
    LET spam == isSpamming(messageTracker, sender, now)
    IN  /\ messageTracker' = spam[2]
        /\ lastCheck' = [sender |-> sender, at |-> now, result |-> spam[1],
                         wasBlocked |-> IsBlockedAt(window[sender], now),
                         expired |-> HasExpiredAt(window[sender], now)]
        /\ window' = [window EXCEPT ![sender] = Counted(window[sender], now, spam[1])]
        /\ UNCHANGED <<quizSessions, timers, nextTimer, handlers, sent, now, received,
                       issuedAt, phase>>
        /\ UNCHANGED dispatchVars

\* Time passes.
RateTick ==
    /\ now + RateTickMs <= RateMaxNow
    /\ now' = now + RateTickMs
    /\ UNCHANGED <<quizSessions, timers, nextTimer, handlers, sent, messageTracker,
                   received, issuedAt, phase, lastCheck, window>>
    /\ UNCHANGED dispatchVars

RateNext ==
    \/ \E sender \in Senders : SpamCheck(sender)
    \/ RateTick

RateSpec == Init /\ [][RateNext]_vars

\* ---------------------------------------------------------------- PipeSpec
\* The dispatch loop of messages.upsert, await by await: batches of several
\* events, the skips, the first-time welcome, the ambient reply, the command
\* dispatch, and the failure of each awaited call.  The commands executed
\* here are not the quiz command; time does not pass, and every write of the
\* persisted sets succeeds (StoreSpec follows the writes that fail).

PipeMsg(remoteJid, participant, text, fromMe, message) ==
    [remoteJid |-> remoteJid, participant |-> participant, text |-> text,
     fromMe |-> fromMe, message |-> message]

\* Inbound events; fromMe is msg.key.fromMe, message whether msg.message is set.
PipeMessages ==
    { PipeMsg(PrivateChat, NoJid, <<"/", "x">>, FALSE, TRUE),
      PipeMsg(GroupChat, PrivateChat, <<"/", "x">>, FALSE, TRUE),
      PipeMsg(OwnerJid, NoJid, <<"/", "x">>, FALSE, TRUE),
      PipeMsg(GroupChat, OwnerLidJid, <<"/", "x">>, FALSE, TRUE),
      PipeMsg(PrivateChat, NoJid, <<" ", "2", " ">>, FALSE, TRUE),
      PipeMsg(GroupChat, PrivateChat, <<"/", "x", " ", "alef">>, FALSE, TRUE),
      PipeMsg(PrivateChat, NoJid, <<"/", "x">>, TRUE, TRUE) }

Batches ==
    UNION { [1..n -> PipeMessages] : n \in 1..PipeMaxBatch }

\* The events the loop passes over: if (msg.key.fromMe) continue;
\* if (!messageContent) continue; and the two feature flags.
SkippedUngated(msg) == msg.fromMe \/ ~msg.message

Skipped(msg) ==
    \/ msg.fromMe
    \/ ~msg.message
    \/ isGroup(msg.remoteJid) /\ ~features.respondToGroups
    \/ ~isGroup(msg.remoteJid) /\ ~features.respondToPrivate

\* The loop over batch, suspended at pc in the handling of batch[i].
Loop(pc, batch, i) == [pc |-> pc, batch |-> batch, i |-> i]

\* The listener's promise, rejected.
Rejected == Loop("rejected", <<>>, 0)

\* The first event of the batch from position i on that is not skipped, 0
\* when there is none.
RECURSIVE NextEvent(_, _)
NextEvent(batch, i) ==
    IF i > Len(batch) THEN 0
    ELSE IF Skipped(batch[i]) THEN NextEvent(batch, i + 1)
    ELSE i

\* Every event of the batch from position i on is started at once.
EnterAll(bag, batch, i) ==
    bag (+) SetToBag({ Loop("autoRead", batch, j) :
                         j \in {k \in i..Len(batch) : ~Skipped(batch[k])} })

\* for (const msg of messages): the loop goes to the events from position i
\* on and suspends at the first await, that of sock.readMessages.
Enter(bag, batch, i) ==
    IF NextEvent(batch, i) = 0
    THEN bag
    ELSE bag (+) SetToBag({Loop("autoRead", batch, NextEvent(batch, i))})

\* continue / the end of the loop body
Continue(bag, r) == Enter(bag (-) SetToBag({r}), r.batch, r.i + 1)

\* The loop r goes on at pc in the same event.
Goes(bag, r, pc) == (bag (-) SetToBag({r})) (+) SetToBag({[r EXCEPT !.pc = pc]})

\* The listener's promise rejects: the loop is left where it is.
Rejects(bag, r) == (bag (-) SetToBag({r})) (+) SetToBag({Rejected})

\* The exception of cmd.execute is not caught.
catchMissing(bag, r) == Rejects(bag, r)

\* catch (error) { ... await sock.sendMessage(sender, failure notice) }
catchError(bag, r) == Goes(bag, r, "notice")

\* messages.upsert delivers a batch of type notify.
Upsert(batch) ==
    /\ received + Len(batch) <= PipeMaxMsgs
    /\ received' = received + Len(batch)
    /\ handlers' = Enter(handlers, batch, 1)
    /\ sent' = <<>>
    /\ UNCHANGED <<quizSessions, timers, nextTimer, messageTracker, now, issuedAt,
                   phase, lastCheck, window>>
    /\ UNCHANGED dispatchVars

\* The dispatch of the loop's event, from the interceptor to the next await.
PipeDispatch(r) ==
    Dispatch(r.batch[r.i], Goes(handlers, r, "report"), Continue(handlers, r),
             Goes(handlers, r, "denial"), Goes(handlers, r, "typing"))

\* Auto Duaa: the feature is enabled, the text has an Arabic letter and
\* Math.random() < 1 / 7, or not; then the dispatch.
Ambient(r) ==
    \/ /\ autoDuaa.enabled
       /\ ARABIC_REGEX(r.batch[r.i].text)
       /\ sent' = <<Notice(r.batch[r.i].remoteJid, "duaa")>>
       /\ handlers' = Goes(handlers, r, "duaa")
       /\ UNCHANGED <<quizSessions, timers, issuedAt, phase, messageTracker>>
    \/ PipeDispatch(r)

\* sock.readMessages returned: addChat, the first-time welcome (the help
\* command runs to its send of the menu), else the ambient reply and the
\* dispatch.
AutoReadDone(r) ==
    /\ BagIn(r, handlers)
    /\ r.pc = "autoRead"
    /\ trackedChats' = addChat(trackedChats, r.batch[r.i].remoteJid)
    /\ chatsFile' = addChatSaves(chatsFile, trackedChats, r.batch[r.i].remoteJid,
                                 "written").file
    /\ seenUsers' = seenAfter(seenUsers, r.batch[r.i])
    /\ seenFile' = seenFileAfter(seenFile, seenUsers, r.batch[r.i], "written")
    /\ IF WelcomeDue(seenUsers, r.batch[r.i])
       THEN /\ sent' = <<Notice(r.batch[r.i].remoteJid, "menu")>>
            /\ handlers' = Goes(handlers, r, "welcome")
            /\ UNCHANGED <<quizSessions, timers, issuedAt, phase, messageTracker>>
       ELSE Ambient(r)
    /\ UNCHANGED <<nextTimer, now, received, lastCheck, window, commands, features, quizPool,
                   autoDuaa, parsed, registered, returned>>

\* helpCmd.execute returned.
WelcomeDone(r) ==
    /\ BagIn(r, handlers)
    /\ r.pc = "welcome"
    /\ Ambient(r)
    /\ UNCHANGED <<nextTimer, now, received, lastCheck, window>>
    /\ UNCHANGED dispatchVars

\* The ambient reply was sent, and the loop is done with the event.
DuaaConsumes(r) ==
    /\ BagIn(r, handlers)
    /\ r.pc = "duaa"
    /\ handlers' = Continue(handlers, r)
    /\ sent' = <<>>
    /\ UNCHANGED <<quizSessions, timers, nextTimer, messageTracker, now, received,
                   issuedAt, phase, lastCheck, window>>
    /\ UNCHANGED dispatchVars

\* The ambient reply was sent: the interceptor and the dispatch follow.
DuaaDone(r) ==
    /\ BagIn(r, handlers)
    /\ r.pc = "duaa"
    /\ PipeDispatch(r)
    /\ UNCHANGED <<nextTimer, now, received, lastCheck, window>>
    /\ UNCHANGED dispatchVars

\* A step of the loop that touches nothing but the loop and sends out.
LoopStep(r, pcs, bag, out) ==
    /\ BagIn(r, handlers)
    /\ r.pc \in pcs
    /\ handlers' = bag
    /\ sent' = out
    /\ UNCHANGED <<quizSessions, timers, nextTimer, messageTracker, now, received,
                   issuedAt, phase, lastCheck, window>>
    /\ UNCHANGED dispatchVars

\* The answer report or the denial was sent: continue.
SendDone(r) == LoopStep(r, {"report", "denial"}, Continue(handlers, r), <<>>)

\* sendPresenceUpdate('composing') returned: cmd.execute is called.
TypingDone(r) == LoopStep(r, {"typing"}, Goes(handlers, r, "execute"), <<>>)

\* cmd.execute returned.
ExecuteDone(r) == LoopStep(r, {"execute"}, Goes(handlers, r, "paused"), <<>>)

\* cmd.execute threw: the catch sends the failure notice.
ExecuteThrows(r) ==
    LoopStep(r, {"execute"}, catchError(handlers, r),
             <<Notice(r.batch[r.i].remoteJid, "failure")>>)

\* The failure notice was sent.
NoticeDone(r) == LoopStep(r, {"notice"}, Goes(handlers, r, "paused"), <<>>)

\* sendPresenceUpdate('paused') returned: the end of the loop body.
PausedDone(r) == LoopStep(r, {"paused"}, Continue(handlers, r), <<>>)

\* The awaits of the loop that no try encloses.
AwaitsOutsideTry ==
    {"autoRead", "welcome", "duaa", "report", "denial", "typing", "notice", "paused"}

\* An awaited call outside the try rejects: the listener's promise rejects
\* and the loop is left where it is.
Reject(r) == LoopStep(r, AwaitsOutsideTry, Rejects(handlers, r), <<>>)

\* A command 'x' registered with permission flags (not with groupOnly and
\* privateOnly at once, which no sender passes).
Flags ==
    {f \in [ownerOnly : BOOLEAN, groupOnly : BOOLEAN, privateOnly : BOOLEAN] :
        ~(f.groupOnly /\ f.privateOnly)}
XCmd(f) == [name |-> "x", ownerOnly |-> f.ownerOnly, groupOnly |-> f.groupOnly,
            privateOnly |-> f.privateOnly]
WithX(f) == registerCommand(ShippedCommands, <<"x">>, {}, XCmd(f))
Registries == {ShippedCommands} \cup {WithX(f) : f \in Flags}

\* userData of a sender whose window holds maxMessages events.
AtLimit == [count |-> maxMessages, firstMessage |-> 0, blocked |-> FALSE, blockedUntil |-> 0]

\* u1 at the rate limit only where a command is registered that u1 passes
\* the scope checks of.
Trackers(registry) ==
    {[s \in Identities |-> NoData]} \cup
    IF registry \in {WithX(f) : f \in {g \in Flags : ~g.groupOnly /\ ~g.privateOnly}}
    THEN {[s \in Identities |-> IF s = PrivateChat THEN AtLimit ELSE NoData]}
    ELSE {}

\* A quiz session of u1's direct conversation, its timer armed.
StoredSession == [question |-> QUIZ_POOL[1], timer |-> 1]

\* The states the loop is started in.  A first run (nothing persisted, no
\* session) with a command 'x' registered or with the flags of config.js
\* customized, or a later run with a quiz session of u1 stored; u1 at the
\* rate limit or not.
PipeInit ==
    /\ handlers = EmptyBag
    /\ sent = <<>>
    /\ now = 0
    /\ received = 0
    /\ lastCheck = NoCheck
    /\ window = [s \in Senders |-> NoWindow]
    /\ parsed = NoParse
    /\ registered = Len(Startup)
    /\ returned = NoReturn
    /\ quizPool = QUIZ_POOL
    /\ \/ /\ quizSessions = [c \in Chats |-> NoSession]
          /\ timers = {}
          /\ nextTimer = 1
          /\ issuedAt = [c \in Chats |-> -1]
          /\ phase = [c \in Chats |-> "NONE"]
          /\ trackedChats = {}
          /\ seenUsers = {}
          /\ \/ /\ commands \in Registries
                /\ features = ShippedFeatures
                /\ autoDuaa = ShippedAutoDuaa
                /\ messageTracker \in Trackers(commands)
             \/ /\ commands = ShippedCommands
                /\ features \in [respondToGroups : BOOLEAN, respondToPrivate : BOOLEAN]
                /\ autoDuaa = ShippedAutoDuaa
                /\ messageTracker = [s \in Identities |-> NoData]
             \/ /\ commands = WithX([ownerOnly |-> FALSE, groupOnly |-> FALSE,
                                      privateOnly |-> FALSE])
                /\ features = ShippedFeatures
                /\ autoDuaa = [enabled |-> FALSE]
                /\ messageTracker = [s \in Identities |-> NoData]
       \/ /\ quizSessions = [c \in Chats |->
                                IF c = PrivateChat THEN StoredSession ELSE NoSession]
          /\ timers = setTimeout({}, 1, PrivateChat, QUIZ_POOL[1], 0)
          /\ nextTimer = 2
          /\ issuedAt = [c \in Chats |-> IF c = PrivateChat THEN 0 ELSE -1]
          /\ phase = [c \in Chats |-> IF c = PrivateChat THEN "ACTIVE" ELSE "NONE"]
          /\ trackedChats = {PrivateChat}
          /\ seenUsers = {PrivateChat}
          /\ commands = WithX([ownerOnly |-> FALSE, groupOnly |-> FALSE,
                                privateOnly |-> FALSE])
          /\ features = ShippedFeatures
          /\ autoDuaa = ShippedAutoDuaa
          /\ messageTracker \in Trackers(commands)
    /\ chatsFile = Saved(trackedChats)
    /\ seenFile = Saved(seenUsers)

PipeNext ==
    \/ \E batch \in Batches : Upsert(batch)
    \/ \E r \in BagToSet(handlers) : AutoReadDone(r)
    \/ \E r \in BagToSet(handlers) : WelcomeDone(r)
    \/ \E r \in BagToSet(handlers) : DuaaDone(r)
    \/ \E r \in BagToSet(handlers) : SendDone(r)
    \/ \E r \in BagToSet(handlers) : TypingDone(r)
    \/ \E r \in BagToSet(handlers) : ExecuteDone(r)
    \/ \E r \in BagToSet(handlers) : ExecuteThrows(r)
    \/ \E r \in BagToSet(handlers) : NoticeDone(r)
    \/ \E r \in BagToSet(handlers) : PausedDone(r)
    \/ \E r \in BagToSet(handlers) : Reject(r)

PipeSpec == PipeInit /\ [][PipeNext]_vars

\* ---------------------------------------------------------------- ParseSpec
\* parseCommand alone, applied to every short text over a small alphabet and
\* to several prefix configurations.
Alphabet == {"/", "!", " ", "P", "p"}
ParseTexts == UNION { [1..n -> Alphabet] : n \in 0..MaxLen }
PrefixLists ==
    { << <<"/">> >>,
      << <<"!">>, <<"/">> >>,
      << <<"/">>, <<"/", "p">> >>,
      << <<"/", "p">>, <<"/">> >> }

\* const { command, args } = parseCommand(text, prefixes)
Parse(text, prefixes) ==
    /\ parsed = NoParse
    /\ parsed' = [text |-> text, prefixes |-> prefixes,
                  command |-> parseCommandWith(text, prefixes).command,
                  args |-> parseCommandWith(text, prefixes).args]
    /\ UNCHANGED <<quizSessions, timers, nextTimer, handlers, sent, messageTracker, now,
                   received, issuedAt, phase, lastCheck, window, commands, features, quizPool,
                   autoDuaa, trackedChats, seenUsers, registered, returned, chatsFile,
                   seenFile>>

ParseNext == \E text \in ParseTexts, prefixes \in PrefixLists : Parse(text, prefixes)

ParseSpec == Init /\ [][ParseNext]_vars

\* No event was delivered and no time has passed.
quizVars == <<quizSessions, timers, nextTimer, handlers, sent, messageTracker, now,
              received, issuedAt, phase, lastCheck, window>>

Quiet ==
    /\ quizSessions = [c \in Chats |-> NoSession]
    /\ timers = {}
    /\ nextTimer = 1
    /\ handlers = EmptyBag
    /\ sent = <<>>
    /\ messageTracker = [s \in Identities |-> NoData]
    /\ now = 0
    /\ received = 0
    /\ issuedAt = [c \in Chats |-> -1]
    /\ phase = [c \in Chats |-> "NONE"]
    /\ lastCheck = NoCheck
    /\ window = [s \in Senders |-> NoWindow]
    /\ parsed = NoParse
    /\ features = ShippedFeatures
    /\ quizPool = QUIZ_POOL
    /\ autoDuaa = ShippedAutoDuaa

\* ----------------------------------------------------------------- RegSpec
\* Loading commands/index.js: the registrations of the file, one after
\* another, into the empty Map; then the lookups of getCommand and the call
\* of getUniqueCommands that the events make.
EmptyRegistry == [k \in {} |-> NoCmd]

RegInit ==
    /\ Quiet
    /\ commands = EmptyRegistry
    /\ registered = 0
    /\ returned = NoReturn
    /\ trackedChats = {}
    /\ seenUsers = {}
    /\ chatsFile = NoFile
    /\ seenFile = NoFile

\* The next registerCommand(name, options) of the file.
Register ==
    /\ registered < Len(Startup)
    /\ LET reg == Startup[registered + 1]
       IN  commands' = registerCommand(commands, reg.name, Elements(reg.aliases),
                                       reg.commandData)
    /\ registered' = registered + 1
    /\ UNCHANGED quizVars
    /\ UNCHANGED <<features, quizPool, autoDuaa, trackedChats, seenUsers, parsed, returned,
                   chatsFile, seenFile>>

\* A call made once the module is loaded.
Called(call, name, cmd, list) ==
    /\ registered = Len(Startup)
    /\ returned' = [call |-> call, name |-> name, cmd |-> cmd, list |-> list]
    /\ UNCHANGED quizVars
    /\ UNCHANGED <<commands, features, quizPool, autoDuaa, trackedChats, seenUsers, parsed,
                   registered, chatsFile, seenFile>>

\* The registered keys, and the names of one letter.
LookupNames ==
    UNION { KeysOf(Startup[i]) : i \in DOMAIN Startup }
    \cup { <<Startup[i].name[j]>> : i \in DOMAIN Startup, j \in 1..2 }

\* const cmd = getCommand(command)
Lookup(name) == Called("getCommand", name, getCommand(name), <<>>)

\* const uniqueCommands = getUniqueCommands()
Unique ==
    Called("getUniqueCommands", <<>>, NoCmd,
           getUniqueCommands(commands, entriesAfter(registered)))

RegNext ==
    \/ Register
    \/ \E name \in LookupNames : Lookup(name)
    \/ Unique

RegSpec == RegInit /\ [][RegNext]_vars

\* ---------------------------------------------------------------- StoreSpec
\* The two persisted sets: loaded when the process starts, added to by the
\* events, saved at every add; the disk can fail at every read and write, and
\* the process can be started again.
StoreMessages ==
    { [remoteJid |-> PrivateChat, participant |-> NoJid, text |-> <<>>],
      [remoteJid |-> OwnerJid, participant |-> NoJid, text |-> <<>>],
      [remoteJid |-> GroupChat, participant |-> PrivateChat, text |-> <<>>] }

LoadErrors == {"Error loading chats", "Error loading seen users"}
SaveErrors == {"Error saving chats", "Error saving seen users"}

\* A first start: neither file exists.
StoreInit ==
    /\ Quiet
    /\ commands = ShippedCommands
    /\ registered = Len(Startup)
    /\ returned = NoReturn
    /\ chatsFile = NoFile
    /\ seenFile = NoFile
    /\ trackedChats = loadChats(chatsFile, "read").set
    /\ seenUsers = loadSeenUsers(seenFile, "read").set

\* addChat(trackedChats, sender); const isFirstTime = !isGroup &&
\* isNewUser(seenUsers, senderJid), for the event msg.  An exception of
\* addChat would leave the handler before isNewUser is called.
Track(msg, chatsOutcome, seenOutcome) ==
    LET sender == msg.remoteJid
        chatsSave == addChatSaves(chatsFile, trackedChats, sender, chatsOutcome)
        seenSave ==
            IF isGroup(sender) \/ chatsSave.threw
            THEN [file |-> seenFile, threw |-> FALSE, logged |-> FALSE]
            ELSE isNewUserSaves(seenFile, seenUsers, senderJidOf(msg), seenOutcome)
    IN  /\ trackedChats' = addChat(trackedChats, sender)
        /\ chatsFile' = chatsSave.file
        /\ seenUsers' = IF chatsSave.threw THEN seenUsers ELSE seenAfter(seenUsers, msg)
        /\ seenFile' = seenSave.file
        /\ returned' =
              [call |-> "track", msg |-> msg,
               added |-> sender \notin trackedChats,
               isFirstTime |-> /\ ~chatsSave.threw
                               /\ ~isGroup(sender)
                               /\ isNewUser(seenUsers, senderJidOf(msg))[1],
               threw |-> chatsSave.threw \/ seenSave.threw,
               logged |-> {e \in SaveErrors :
                              \/ e = "Error saving chats" /\ chatsSave.logged
                              \/ e = "Error saving seen users" /\ seenSave.logged}]
        /\ UNCHANGED quizVars
        /\ UNCHANGED <<commands, features, quizPool, autoDuaa, parsed, registered>>

\* The process is started again: const trackedChats = loadChats(); const
\* seenUsers = loadSeenUsers().
Restart(chatsOutcome, seenOutcome) ==
    LET chatsLoad == loadChats(chatsFile, chatsOutcome)
        seenLoad == loadSeenUsers(seenFile, seenOutcome)
    IN  /\ trackedChats' = chatsLoad.set
        /\ seenUsers' = seenLoad.set
        /\ returned' =
              [call |-> "load", msg |-> NoMsg, added |-> FALSE, isFirstTime |-> FALSE,
               threw |-> chatsLoad.threw \/ seenLoad.threw,
               logged |-> {e \in LoadErrors :
                              \/ e = "Error loading chats" /\ chatsLoad.logged
                              \/ e = "Error loading seen users" /\ seenLoad.logged}]
        /\ UNCHANGED quizVars
        /\ UNCHANGED <<commands, features, quizPool, autoDuaa, parsed, registered, chatsFile,
                       seenFile>>

StoreNext ==
    \/ \E msg \in StoreMessages, chatsOutcome \in WriteOutcomes, seenOutcome \in WriteOutcomes :
          Track(msg, chatsOutcome, seenOutcome)
    \/ \E chatsOutcome \in ReadOutcomes, seenOutcome \in ReadOutcomes :
          Restart(chatsOutcome, seenOutcome)

StoreSpec == StoreInit /\ [][StoreNext]_vars

\* ----------------------------------------------------------------- PageSpec
\* The page command alone, executed once on every short list of arguments.
PageAlphabet == {"0", "1", "4", "5", "6", "9", "-", ".", "a"}
PageTokens == UNION { [1..n -> PageAlphabet] : n \in 1..MaxDigits }

\* The args of parseCommand: none, one token, or a token and a second one.
PageArgs ==
    { <<>> } \cup { <<t>> : t \in PageTokens }
    \cup { <<t, <<c>> >> : t \in PageTokens, c \in PageAlphabet }

\* args.join(' ')
RECURSIVE Join(_)
Join(args) ==
    IF args = <<>> THEN <<>>
    ELSE IF Len(args) = 1 THEN args[1]
    ELSE args[1] \o <<" ">> \o Join(Tail(args))

\* The execute of the page command for the sender u1: the page is fetched,
\* converted and sent, or one of the three throws and the catch logs it.
PageCommand(args, delivered) ==
    LET number == Join(args)
    IN  /\ returned' = [call |-> "page", args |-> args, delivered |-> delivered]
        /\ sent' = IF isValidPageNumber(Trim(number)) /\ delivered
                   THEN <<Page(PrivateChat, parseDecimal(Trim(number)))>>
                   ELSE <<>>
        /\ UNCHANGED <<quizSessions, timers, nextTimer, handlers, messageTracker, now,
                       received, issuedAt, phase, lastCheck, window>>
        /\ UNCHANGED <<commands, features, quizPool, autoDuaa, trackedChats, seenUsers, parsed,
                       registered, chatsFile, seenFile>>

\* One execution in a behaviour.
PageNext ==
    /\ returned = NoReturn
    /\ \E args \in PageArgs, delivered \in BOOLEAN : PageCommand(args, delivered)

PageSpec == Init /\ [][PageNext]_vars

\* ----------------------------------------------------------------- KeySpec
\* The quiz machine and the rate limiter with two conversations and two
\* senders at work: u1 in the direct conversation, the owner (under the
\* linked id) in the group; each starts quizzes and answers them.
KeyMessages ==
    { [remoteJid |-> PrivateChat, participant |-> NoJid, text |-> t] :
        t \in { <<"3">>, <<"/", "Q", "u", "i", "z">> } }
    \cup { [remoteJid |-> GroupChat, participant |-> OwnerLidJid, text |-> t] :
             t \in { <<"3">>, <<"/", "Q", "u", "i", "z">> } }

KeyNext ==
    \/ \E msg \in KeyMessages : Receive(msg)
    \/ \E r \in BagToSet(handlers) : Classify(r)
    \/ \E r \in BagToSet(handlers) : Execute(r)
    \/ \E r \in BagToSet(handlers) : QuizStore(r)
    \/ \E r \in BagToSet(handlers) : QuizSendFail(r)
    \/ \E t \in timers : TimerFire(t)
    \/ Tick

KeySpec == Init /\ [][KeyNext]_vars

\* ------------------------------------------------------------ BroadcastSpec
\* The broadcast command, await by await, issued by the owner in the direct
\* conversation or in the group, while the handlers of other events go on
\* adding the chats of their events to trackedChats.

\* The conversations that events come from: the owner has a direct
\* conversation under the linked id as well.
BroadcastChats == Chats \cup {OwnerLidJid}

\* args of the broadcast command, as parseCommand returns them
BroadcastArgs == { <<>>, << <<"m">> >> }

\* One execution of the command: the handler's event (sender, args) and the
\* locals of execute.  tracked is history: the Set as it was
\* when execute read it; attempted is history: the chats that
\* sock.sendMessage was called with in the loop, in order.
Broadcast(pc, sender, args, allChats, i, successCount, failCount, failedChats, tracked, attempted) ==
    [pc |-> pc, sender |-> sender, args |-> args, allChats |-> allChats, i |-> i,
     successCount |-> successCount, failCount |-> failCount,
     failedChats |-> failedChats, tracked |-> tracked, attempted |-> attempted]

\* The completion report: success, fail and total.
Report(to, successCount, failCount, totalChats) ==
    [to |-> to, kind |-> "broadcastReport", successCount |-> successCount,
     failCount |-> failCount, totalChats |-> totalChats]

\* The owner has written to the bot before; the other chats are tracked or
\* not.
BroadcastInit ==
    /\ Quiet
    /\ commands = ShippedCommands
    /\ registered = Len(Startup)
    /\ returned = NoReturn
    /\ trackedChats \in {set \in SUBSET BroadcastChats : OwnerJid \in set}
    /\ seenUsers = {OwnerJid}
    /\ chatsFile = Saved(trackedChats)
    /\ seenFile = Saved(seenUsers)

\* The owner's event '/broadcast args' in the conversation sender:
\* addChat(trackedChats, sender), isSpamming(senderJid), the owner check, up
\* to the await of the typing indicator.
BroadcastArrive(sender, senderJid, args) ==
    LET spam == isSpamming(messageTracker, senderJid, now)
    IN  /\ received < MaxBroadcasts
        /\ received' = received + 1
        /\ isOwner(senderJid)
        /\ trackedChats' = addChat(trackedChats, sender)
        /\ chatsFile' = addChatSaves(chatsFile, trackedChats, sender, "written").file
        /\ messageTracker' = spam[2]
        /\ handlers' = IF spam[1]
                       THEN handlers
                       ELSE handlers (+) SetToBag({Broadcast("typing", sender, args, <<>>,
                                                             0, 0, 0, <<>>, {}, <<>>)})
        /\ sent' = <<>>
        /\ UNCHANGED <<quizSessions, timers, nextTimer, now, issuedAt, phase, lastCheck,
                       window>>
        /\ UNCHANGED <<commands, features, quizPool, autoDuaa, seenUsers, parsed,
                       registered, returned, seenFile>>

\* What a step of an execution leaves alone.
BroadcastFrame ==
    /\ UNCHANGED <<quizSessions, timers, nextTimer, messageTracker, now, received,
                   issuedAt, phase, lastCheck, window>>
    /\ UNCHANGED dispatchVars

\* for (const chatJid of allChats) { if (chatJid === sender) continue; ... }:
\* the first position after i that is not the sender's, 0 when there is none.
RECURSIVE NextRecipient(_, _, _)
NextRecipient(allChats, i, sender) ==
    IF i + 1 > Len(allChats) THEN 0
    ELSE IF allChats[i + 1] = sender THEN NextRecipient(allChats, i + 1, sender)
    ELSE i + 1

\* The loop given up at the first failed send.
ForEachRecipientUntilFailure(r, successCount, failCount, failedChats) ==
    LET j == IF failCount > 0 THEN 0 ELSE NextRecipient(r.allChats, r.i, r.sender)
    IN  IF j = 0
        THEN /\ sent' = <<Report(r.sender, successCount, failCount, Len(r.allChats))>>
             /\ handlers' = Resume(handlers, r,
                                   [r EXCEPT !.pc = "report", !.successCount = successCount,
                                             !.failCount = failCount,
                                             !.failedChats = failedChats])
        ELSE /\ sent' = <<Notice(r.allChats[j], "broadcast")>>
             /\ handlers' = Resume(handlers, r,
                                   [r EXCEPT !.pc = "deliver", !.i = j,
                                             !.successCount = successCount,
                                             !.failCount = failCount,
                                             !.failedChats = failedChats,
                                             !.attempted = Append(r.attempted, r.allChats[j])])

\* The loop goes on after position r.i, with the counters as given: the send
\* to the next recipient is awaited, or, after the last one, the send of the
\* completion report.
ForEachRecipient(r, successCount, failCount, failedChats) ==
    LET j == NextRecipient(r.allChats, r.i, r.sender)
    IN  IF j = 0
        THEN /\ sent' = <<Report(r.sender, successCount, failCount, Len(r.allChats))>>
             /\ handlers' = Resume(handlers, r,
                                   [r EXCEPT !.pc = "report", !.successCount = successCount,
                                             !.failCount = failCount,
                                             !.failedChats = failedChats])
        ELSE /\ sent' = <<Notice(r.allChats[j], "broadcast")>>
             /\ handlers' = Resume(handlers, r,
                                   [r EXCEPT !.pc = "deliver", !.i = j,
                                             !.successCount = successCount,
                                             !.failCount = failCount,
                                             !.failedChats = failedChats,
                                             !.attempted = Append(r.attempted, r.allChats[j])])

\* sendPresenceUpdate returned: execute is called and runs to its first send.
BroadcastExecute(r) ==
    /\ BagIn(r, handlers)
    /\ r.pc = "typing"
    /\ IF Join(r.args) = <<>>
       THEN /\ sent' = <<Notice(r.sender, "usage")>>
            /\ handlers' = Resume(handlers, r, [r EXCEPT !.pc = "notice"])
       ELSE IF Cardinality(trackedChats) = 0
       THEN /\ sent' = <<Notice(r.sender, "noChats")>>
            /\ handlers' = Resume(handlers, r, [r EXCEPT !.pc = "notice"])
       ELSE /\ sent' = <<Notice(r.sender, "broadcastStart")>>
            /\ handlers' = Resume(handlers, r,
                                  [r EXCEPT !.pc = "start",
                                            !.allChats = ArrayFrom(trackedChats),
                                            !.tracked = trackedChats])
    /\ BroadcastFrame

\* The start notification was sent: the loop begins.
StartSent(r) ==
    /\ BagIn(r, handlers)
    /\ r.pc = "start"
    /\ ForEachRecipient(r, 0, 0, <<>>)
    /\ BroadcastFrame

\* The send to allChats[i] returned: successCount++, then the 500 ms pause.
Delivered(r) ==
    /\ BagIn(r, handlers)
    /\ r.pc = "deliver"
    /\ handlers' = Resume(handlers, r,
                          [r EXCEPT !.pc = "delay", !.successCount = r.successCount + 1])
    /\ sent' = <<>>
    /\ BroadcastFrame

\* The pause is over.
DelayDone(r) ==
    /\ BagIn(r, handlers)
    /\ r.pc = "delay"
    /\ ForEachRecipient(r, r.successCount, r.failCount, r.failedChats)
    /\ BroadcastFrame

\* The send to allChats[i] threw: catch { failCount++; failedChats.push }.
DeliveryFails(r) ==
    /\ BagIn(r, handlers)
    /\ r.pc = "deliver"
    /\ ForEachRecipient(r, r.successCount, r.failCount + 1,
                        Append(r.failedChats, r.allChats[r.i]))
    /\ BroadcastFrame

\* A send of execute outside its loop threw: the caller's catch sends the
\* failure notice.
BroadcastThrows(r) ==
    /\ BagIn(r, handlers)
    /\ r.pc \in {"notice", "start", "report"}
    /\ sent' = <<Notice(r.sender, "failure")>>
    /\ handlers' = Return(handlers, r)
    /\ BroadcastFrame

\* The usage notice, the notice that no chat is tracked or the completion
\* report was sent: execute returns.
BroadcastReturns(r) ==
    /\ BagIn(r, handlers)
    /\ r.pc \in {"notice", "report"}
    /\ sent' = <<>>
    /\ handlers' = Return(handlers, r)
    /\ BroadcastFrame

\* The handler of another event: addChat(trackedChats, sender).
TrackOther(chat) ==
    /\ chat \notin trackedChats
    /\ trackedChats' = addChat(trackedChats, chat)
    /\ chatsFile' = addChatSaves(chatsFile, trackedChats, chat, "written").file
    /\ sent' = <<>>
    /\ UNCHANGED <<quizSessions, timers, nextTimer, handlers, messageTracker, now,
                   received, issuedAt, phase, lastCheck, window>>
    /\ UNCHANGED <<commands, features, quizPool, autoDuaa, seenUsers, parsed, registered,
                   returned, seenFile>>

BroadcastNext ==
    \/ \E args \in BroadcastArgs : BroadcastArrive(OwnerJid, OwnerJid, args)
    \/ \E args \in BroadcastArgs : BroadcastArrive(GroupChat, OwnerLidJid, args)
    \/ \E r \in BagToSet(handlers) : BroadcastExecute(r)
    \/ \E r \in BagToSet(handlers) : StartSent(r)
    \/ \E r \in BagToSet(handlers) : Delivered(r)
    \/ \E r \in BagToSet(handlers) : DelayDone(r)
    \/ \E r \in BagToSet(handlers) : DeliveryFails(r)
    \/ \E r \in BagToSet(handlers) : BroadcastThrows(r)
    \/ \E r \in BagToSet(handlers) : BroadcastReturns(r)
    \/ \E chat \in BroadcastChats : TrackOther(chat)

BroadcastSpec == BroadcastInit /\ [][BroadcastNext]_vars

\* --------------------------------------------------------------- AnswerSpec
\* The dispatch loop of PipeSpec in a run where a quiz is pending: u1 started
\* it in the direct conversation or in the group, where the owner (under the
\* linked id) is a participant too; u1 sends commands and answers, the owner
\* answers.
AnswerMessages ==
    { PipeMsg(PrivateChat, NoJid, <<"/", "x">>, FALSE, TRUE),
      PipeMsg(PrivateChat, NoJid, <<" ", "2", " ">>, FALSE, TRUE),
      PipeMsg(GroupChat, PrivateChat, <<"/", "x", " ", "alef">>, FALSE, TRUE),
      PipeMsg(GroupChat, OwnerLidJid, <<"2">>, FALSE, TRUE) }

AnswerBatches ==
    UNION { [1..n -> AnswerMessages] : n \in 1..PipeMaxBatch }

\* The quiz of u1 is stored, its timer armed; u1 is at the rate limit or not.
AnswerInit ==
    /\ handlers = EmptyBag
    /\ sent = <<>>
    /\ now = 0
    /\ received = 0
    /\ lastCheck = NoCheck
    /\ window = [s \in Senders |-> NoWindow]
    /\ parsed = NoParse
    /\ registered = Len(Startup)
    /\ returned = NoReturn
    /\ quizPool = QUIZ_POOL
    /\ \E chat \in {PrivateChat, GroupChat} :
          /\ quizSessions = [c \in Chats |-> IF c = chat THEN StoredSession ELSE NoSession]
          /\ timers = setTimeout({}, 1, chat, QUIZ_POOL[1], 0)
          /\ issuedAt = [c \in Chats |-> IF c = chat THEN 0 ELSE -1]
          /\ phase = [c \in Chats |-> IF c = chat THEN "ACTIVE" ELSE "NONE"]
          /\ trackedChats = {chat}
          /\ seenUsers = IF chat = PrivateChat THEN {PrivateChat} ELSE {}
    /\ nextTimer = 2
    /\ commands = WithX([ownerOnly |-> FALSE, groupOnly |-> FALSE, privateOnly |-> FALSE])
    /\ features = ShippedFeatures
    /\ autoDuaa = ShippedAutoDuaa
    /\ messageTracker \in Trackers(commands)
    /\ chatsFile = Saved(trackedChats)
    /\ seenFile = Saved(seenUsers)

AnswerNext ==
    \/ \E batch \in AnswerBatches : Upsert(batch)
    \/ \E r \in BagToSet(handlers) : AutoReadDone(r)
    \/ \E r \in BagToSet(handlers) : WelcomeDone(r)
    \/ \E r \in BagToSet(handlers) : DuaaDone(r)
    \/ \E r \in BagToSet(handlers) : SendDone(r)
    \/ \E r \in BagToSet(handlers) : TypingDone(r)
    \/ \E r \in BagToSet(handlers) : ExecuteDone(r)
    \/ \E r \in BagToSet(handlers) : ExecuteThrows(r)
    \/ \E r \in BagToSet(handlers) : NoticeDone(r)
    \/ \E r \in BagToSet(handlers) : PausedDone(r)
    \/ \E r \in BagToSet(handlers) : Reject(r)

AnswerSpec == AnswerInit /\ [][AnswerNext]_vars

\* ------------------------------------------------------------ properties
\* The handler r takes its next step.
Steps(r) == BagIn(r, handlers) /\ CopiesIn(r, handlers') < CopiesIn(r, handlers)

\* The last step sent exactly one message, of one of these kinds, to chat c.
SentTo(out, c, kinds) == Len(out) = 1 /\ out[1].to = c /\ out[1].kind \in kinds

AnswerKinds == {"correct", "wrong"}
TerminalKinds == {"correct", "wrong", "timeup"}

\* A live session of chat c: a question with its armed expiry timer.
ActiveSessions(c) == {t \in timers : t.sender = c}

\* C1: for every conversation, at every instant, at most one quiz session is
\* ACTIVE (a question issued whose expiry timer is armed), also when two quiz
\* starts of the conversation are processed concurrently.
C1_AtMostOneActiveSession ==
    \A c \in Chats : Cardinality(ActiveSessions(c)) <= 1

\* C2: a session leaves the store only by one consuming transition, of the
\* answer path or of the timer path, which emits exactly one terminal report
\* for it; a timer callback that finds no session changes nothing and sends
\* nothing.
C2_ExactlyOneConsumer ==
    [][ /\ \A c \in Chats :
            HasSession(quizSessions, c) /\ quizSessions'[c] # quizSessions[c]
            => /\ ~HasSession(quizSessions', c)
               /\ SentTo(sent', c, TerminalKinds)
               /\ sent'[1].session = quizSessions[c].timer
        /\ \A t \in timers :
            /\ handlers' = handlers
            /\ timers' = timers \ {t}
            /\ ~HasSession(quizSessions, t.sender)
            => sent' = <<>> /\ quizSessions' = quizSessions ]_vars

\* C3: a quiz start executed in a conversation whose session is ACTIVE sends
\* the "pending" notice, leaves the stored session and the armed timers as
\* they are, and returns without storing anything.
C3_StartWhileActiveIsRejected ==
    [][ \A r \in BagToSet(handlers) :
            Steps(r) /\ r.pc = "typing" /\ HasSession(quizSessions, r.msg.remoteJid)
            => /\ sent' = <<Notice(r.msg.remoteJid, "pending")>>
               /\ quizSessions' = quizSessions
               /\ timers' = timers
               /\ handlers' = Return(handlers, r) ]_vars

\* A pending notice was just sent to a conversation whose session is stored.
C3_Witness ==
    /\ sent # <<>>
    /\ sent[1].kind = "pending"
    /\ HasSession(quizSessions, sent[1].to)

\* C4: with a session ACTIVE, an inbound text is consumed as an answer iff its
\* trimmed form is "1", "2" or "3"; any other text leaves the session and the
\* timers untouched and goes on to command parsing (a registered command of
\* a sender who is not rate-limited proceeds to its execution).
C4_AnswerTokens ==
    [][ \A r \in BagToSet(handlers) :
            Steps(r) /\ r.pc = "classify" /\ HasSession(quizSessions, r.msg.remoteJid)
            => LET c == r.msg.remoteJid
                   token == Trim(r.msg.text) \in { <<"1">>, <<"2">>, <<"3">> }
                   typing == Handler("typing", [r.msg EXCEPT !.text = <<>>], NoQuestion, 0)
                   resolves ==
                       /\ getCommand(parseCommand(r.msg.text)) # NoCmd
                       /\ ~isSpamming(messageTracker, senderJidOf(r.msg), now)[1]
               IN  /\ token <=> ~HasSession(quizSessions', c)
                   /\ token => SentTo(sent', c, AnswerKinds) /\ handlers' = Return(handlers, r)
                   /\ ~token => /\ quizSessions' = quizSessions
                                /\ timers' = timers
                                /\ sent' = <<>>
                                /\ IF resolves
                                   THEN handlers' = Resume(handlers, r, typing)
                                   ELSE handlers' = Return(handlers, r) ]_vars

\* The text " 2 " was just consumed as the answer 2.
C4_Witness ==
    /\ sent # <<>>
    /\ sent[1].kind \in AnswerKinds
    /\ sent[1].choice = 2

\* The positions (1-based) of the answers marked correct.
CorrectPositions(question) ==
    {p \in DOMAIN question.answers : question.answers[p].t = 1}

\* C5: an answer is reported correct iff the chosen number is the position of
\* the answer marked correct in the stored list, and the number and the text
\* a wrong-answer or time's-up report names are that position and its answer.
C5_MarkerAndIndexAgree ==
    \A i \in DOMAIN sent :
        LET m == sent[i]
            pos == CorrectPositions(m.question)
        IN  /\ m.kind = "correct" =>
                (m.choice \in pos /\ m.answer = m.question.answers[m.choice].answer)
            /\ m.kind = "wrong" =>
                (/\ m.choice \notin pos
                 /\ m.num \in pos
                 /\ m.answer = m.question.answers[m.num].answer)
            /\ m.kind = "timeup" =>
                (m.num \in pos /\ m.answer = m.question.answers[m.num].answer)

\* A wrong answer was just reported, naming position 3.
C5_Witness ==
    /\ sent # <<>>
    /\ sent[1].kind = "wrong"
    /\ sent[1].num = 3

\* C6 (safety part): a session that leaves the store without a valid answer
\* is removed by its own expiry timer, with a time's-up report that names the
\* correct answer of its question.
C6_ExpiredByOwnTimer ==
    [][ \A c \in Chats :
            /\ HasSession(quizSessions, c)
            /\ quizSessions'[c] # quizSessions[c]
            /\ ~SentTo(sent', c, AnswerKinds)
            => /\ SentTo(sent', c, {"timeup"})
               /\ sent'[1].by = quizSessions[c].timer
               /\ sent'[1].answer = findAnswer(quizSessions[c].question.answers) ]_vars

\* C7: a session is removed by expiry only when 30 time-units (30000 ms) have
\* passed since its own question was sent.
C7_FullWindow ==
    [][ \A c \in Chats :
            HasSession(quizSessions, c) /\ SentTo(sent', c, {"timeup"})
            => now - issuedAt[c] >= 30000 ]_vars

\* C8: NONE is reentrant.  Either exit leaves the conversation without a
\* session; a quiz start executed there, the question pool being loaded (as
\* it is wherever a session has ended), sends a question (not the pending
\* notice); and when that send succeeds the new session is stored with its
\* timer armed.
C8_NoneIsReentrant ==
    [][ \A c \in Chats :
            /\ SentTo(sent', c, TerminalKinds) => ~HasSession(quizSessions', c)
            /\ \A r \in BagToSet(handlers) :
                Steps(r) /\ r.msg.remoteJid = c
                => /\ r.pc = "typing" /\ ~HasSession(quizSessions, c) /\ Len(quizPool) > 0
                      => /\ SentTo(sent', c, {"question"})
                         /\ handlers' = Resume(handlers, r,
                               Handler("awaitQuestion", r.msg, sent'[1].question, now))
                   /\ r.pc = "awaitQuestion" /\ sent' = <<>>
                      => /\ HasSession(quizSessions', c)
                         /\ quizSessions'[c].question = r.question
                         /\ \E t \in timers' \ timers :
                               t.id = quizSessions'[c].timer /\ t.sender = c ]_vars

\* A quiz start has just sent its question in a conversation whose previous
\* session ended by an answer or by expiry.
C8_Witness ==
    \E c \in Chats :
        /\ phase[c] \in {"ANSWERED", "EXPIRED"}
        /\ SentTo(sent, c, {"question"})

\* C9: with maxMessages = 10 and interval = 60000, for a sender that is not
\* blocked the first 10 events of a window pass and the 11th is blocked; the
\* count is the number of events since the first one of the window, and
\* starts again once more than the interval has passed since that one.
C9_Threshold ==
    lastCheck.sender # NoJid /\ ~lastCheck.wasBlocked
    => LET w == window[lastCheck.sender]
           userData == messageTracker[lastCheck.sender]
       IN  /\ lastCheck.result <=> w.n > 10
           /\ userData.count = w.n
           /\ userData.firstMessage = w.start
           /\ lastCheck.at - w.start <= 60000

\* The 11th event of a window was just blocked.
C9_Witness ==
    /\ lastCheck.sender # NoJid
    /\ ~lastCheck.wasBlocked
    /\ lastCheck.result
    /\ window[lastCheck.sender].n = 11
    /\ lastCheck.at - window[lastCheck.sender].start = 60000

\* C10: from the check that imposes a block, every check of the sender made
\* before blockDuration (300000) has passed reports blocked; the first check
\* after that is not reported blocked, clears the block and restarts the
\* count (reset to zero, then this event counted).
C10_BlockedUntilExpiry ==
    lastCheck.sender # NoJid
    => LET userData == messageTracker[lastCheck.sender]
       IN  /\ lastCheck.wasBlocked => lastCheck.result
           /\ lastCheck.expired => /\ ~lastCheck.result
                                   /\ ~userData.blocked
                                   /\ userData.count = 1

\* The first check after a block expired was just made.
C10_Witness ==
    /\ lastCheck.sender # NoJid
    /\ lastCheck.expired
    /\ lastCheck.at = window[lastCheck.sender].start

\* ------------------------------------------------ properties of the pipeline
\* The event is handled: it is not self-originated, it has content and its
\* scope is not switched off.
Handled(msg) ==
    /\ ~msg.fromMe
    /\ msg.message
    /\ IF msg.remoteJid.server = "g.us"
       THEN features.respondToGroups
       ELSE features.respondToPrivate

\* The events of r's batch after the current one that are to be handled.
Following(r) == {k \in (r.i + 1)..Len(r.batch) : Handled(r.batch[k])}

\* The loop r is at the event k of its batch, suspended at pc, after the step.
At(r, k, pc) == BagIn(Loop(pc, r.batch, k), handlers')

\* The step rejected a listener's promise.
Rejection == CopiesIn(Rejected, handlers') > CopiesIn(Rejected, handlers)

\* The loops in flight.
InFlight(bag) == BagCardinality(bag) - CopiesIn(Rejected, bag)

DenialKinds == {"ownerOnly", "groupOnly", "privateOnly"}

\* C11: when a command handler throws, exactly one failure notice is sent to
\* the originating conversation (in the step that catches the exception, and
\* in no other), and the loop is kept: once the notice is sent and the typing
\* indicator is cleared, the loop is at the next event of the batch that is
\* to be handled.
C11_ThrowIsCaught ==
    [][ /\ \A r \in BagToSet(handlers) :
            Steps(r) /\ r.pc = "execute" /\ ~At(r, r.i, "paused")
            => /\ sent' = <<Notice(r.batch[r.i].remoteJid, "failure")>>
               /\ At(r, r.i, "notice")
        /\ \A r \in BagToSet(handlers) :
            Steps(r) /\ r.pc = "notice" /\ ~Rejection => At(r, r.i, "paused")
        /\ \A r \in BagToSet(handlers) :
            Steps(r) /\ r.pc = "paused" /\ ~Rejection /\ Following(r) # {}
            => \E k \in Following(r) :
                  /\ \A j \in Following(r) : k <= j
                  /\ At(r, k, "autoRead")
        /\ (\E i \in DOMAIN sent' : sent'[i].kind = "failure")
            => \E r \in BagToSet(handlers) : Steps(r) /\ r.pc = "execute" ]_vars

\* A handler threw while another event of its batch waits: the failure notice
\* is being sent.
C11_Witness ==
    \E r \in BagToSet(handlers) :
        /\ r.pc = "notice"
        /\ Following(r) # {}
        /\ sent = <<Notice(r.batch[r.i].remoteJid, "failure")>>

\* C12: after a failure at any stage of the pipeline the remaining events of
\* the batch are still consumed: a step of a loop that has events left to
\* handle leaves the loop at its event or at a later one.
C12_PipelineGoesOn ==
    [][ \A r \in BagToSet(handlers) :
            Steps(r) /\ r # Rejected /\ Following(r) # {}
            => \E k \in r.i..Len(r.batch), pc \in AwaitsOutsideTry \cup {"execute"} :
                  At(r, k, pc) ]_vars

\* C13: the events of one batch are handled one after another in the order
\* supplied.  A batch has one loop: its delivery starts at most one loop, at
\* the first event to be handled; a step of a loop never adds a loop; and a
\* loop stays at its event or goes to the next event to be handled, of which
\* it is then at the first await.
C13_OneAfterAnother ==
    [][ /\ InFlight(handlers') <= InFlight(handlers) + (IF received' # received THEN 1 ELSE 0)
        /\ \A r \in BagToSet(handlers') :
            received' # received /\ CopiesIn(r, handlers') > CopiesIn(r, handlers)
            => /\ r.pc = "autoRead"
               /\ Handled(r.batch[r.i])
               /\ \A j \in 1..(r.i - 1) : ~Handled(r.batch[j])
        /\ \A r \in BagToSet(handlers) :
            Steps(r) /\ r # Rejected /\ ~Rejection
            => \/ \E pc \in AwaitsOutsideTry \cup {"execute"} : At(r, r.i, pc)
               \/ /\ Following(r) = {}
                  /\ InFlight(handlers') = InFlight(handlers) - 1
               \/ \E k \in Following(r) :
                     /\ \A j \in Following(r) : k <= j
                     /\ At(r, k, "autoRead") ]_vars

\* The loop of a batch of two events is at the second one; the first was
\* handled as well.
C13_Witness ==
    \E r \in BagToSet(handlers) :
        /\ r # Rejected
        /\ r.i = 2
        /\ Handled(r.batch[1])
        /\ r.pc = "typing"

\* C14: a message consumed as a quiz answer stops the pipeline: the step that
\* sends the answer report leaves the rate limiter as it is, and the handler
\* ends with it, without parsing a command and without going on to the
\* execution of one.
C14_AnswerStopsPipeline ==
    [][ \A r \in BagToSet(handlers) :
            /\ Steps(r)
            /\ r.pc = "classify"
            /\ HasSession(quizSessions, r.msg.remoteJid)
            /\ Trim(r.msg.text) \in { <<"1">>, <<"2">>, <<"3">> }
            => /\ SentTo(sent', r.msg.remoteJid, AnswerKinds)
               /\ messageTracker' = messageTracker
               /\ InFlight(handlers') = InFlight(handlers) - 1
               /\ \A h \in BagToSet(handlers') :
                     CopiesIn(h, handlers') <= CopiesIn(h, handlers) ]_vars

\* The answer 3 was just consumed, from a sender whose commands the rate
\* limiter has counted.
C14_Witness ==
    /\ sent # <<>>
    /\ sent[1].kind \in AnswerKinds
    /\ sent[1].choice = 3
    /\ \E s \in Senders : messageTracker[s].count > 0

\* The true originating identity of an event.
Key(msg) == IF msg.remoteJid.server = "g.us" THEN msg.participant ELSE msg.remoteJid

\* The event's text names a registered command.
Resolves(msg) ==
    /\ msg.text # <<>>
    /\ msg.text[1] = "/"
    /\ parseCommand(msg.text) \in DOMAIN commands

\* The sender is blocked, or is at the limit of a window that has not passed
\* (the next event is blocked).
BlockedNow(key) ==
    LET u == messageTracker[key]
    IN  \/ u.blocked /\ now < u.blockedUntil
        \/ /\ u # NoData
           /\ ~u.blocked
           /\ now - u.firstMessage <= 60000
           /\ u.count >= 10

\* The awaits from which a loop goes on to the dispatch of its event.
DispatchPcs == {"autoRead", "welcome", "duaa"}

\* C15: rate limiting is applied only after a command resolves and before
\* any permission check, keyed by the true originating identity: the rate
\* state changes only in the dispatch of an event that names a registered
\* command, and only at the key of its sender; a denial is sent only after
\* the event was counted; and when the sender is blocked the dispatch sends
\* nothing (no denial either) and the command is not executed.
C15_RateLimitFirst ==
    [][ \A r \in BagToSet(handlers) :
            Steps(r) /\ r # Rejected
            => LET msg == r.batch[r.i]
               IN  /\ messageTracker' # messageTracker
                      => /\ r.pc \in DispatchPcs
                         /\ Resolves(msg)
                         /\ \A k \in Identities \ {Key(msg)} :
                               messageTracker'[k] = messageTracker[k]
                   /\ (\E i \in DOMAIN sent' : sent'[i].kind \in DenialKinds)
                      => messageTracker'[Key(msg)].count = messageTracker[Key(msg)].count + 1
                   /\ r.pc \in DispatchPcs /\ Resolves(msg) /\ BlockedNow(Key(msg))
                      => /\ \A i \in DOMAIN sent' : sent'[i].kind \in {"menu", "duaa"}
                         /\ ~At(r, r.i, "typing")
                         /\ ~At(r, r.i, "denial") ]_vars

\* A command of u1 sent in the group was just blocked: the block is stored
\* at u1's key, nothing was sent, and the group's key holds nothing.
C15_Witness ==
    /\ messageTracker[PrivateChat].blocked
    /\ messageTracker[PrivateChat].count = 11
    /\ messageTracker[GroupChat] = NoData
    /\ GroupChat \in trackedChats
    /\ PrivateChat \notin trackedChats
    /\ sent = <<>>

\* The permission checks that fail for the event, in the order of the checks.
OwnerIdentities == {OwnerJid, OwnerLidJid}
Checks == <<"ownerOnly", "groupOnly", "privateOnly">>
Fails(name, cmd, msg) ==
    \/ name = "ownerOnly" /\ cmd.ownerOnly /\ Key(msg) \notin OwnerIdentities
    \/ name = "groupOnly" /\ cmd.groupOnly /\ msg.remoteJid.server # "g.us"
    \/ name = "privateOnly" /\ cmd.privateOnly /\ msg.remoteJid.server = "g.us"
Failing(cmd, msg) == {k \in DOMAIN Checks : Fails(Checks[k], cmd, msg)}

\* C16: for a resolved command of a sender that is not rate-limited the
\* checks run in the order ownerOnly, groupOnly, privateOnly: the first one
\* that fails sends its denial, alone, and the loop goes on without
\* executing; the command is executed only if none fails; and no loop ever
\* executes an ownerOnly command for a sender that is not the owner.
C16_PermissionOrder ==
    /\ [][ \A r \in BagToSet(handlers) :
            /\ Steps(r)
            /\ r.pc \in DispatchPcs
            /\ messageTracker' # messageTracker
            /\ ~messageTracker'[Key(r.batch[r.i])].blocked
            => LET msg == r.batch[r.i]
                   cmd == commands[parseCommand(msg.text)]
                   failing == Failing(cmd, msg)
               IN  IF failing = {}
                   THEN sent' = <<>> /\ At(r, r.i, "typing")
                   ELSE /\ \E k \in failing :
                            /\ \A j \in failing : k <= j
                            /\ sent' = <<Notice(msg.remoteJid, Checks[k])>>
                        /\ At(r, r.i, "denial") ]_vars
    /\ [](\A r \in BagToSet(handlers) :
            r.pc \in {"typing", "execute", "notice", "paused"}
            => LET msg == r.batch[r.i]
               IN  commands[parseCommand(msg.text)].ownerOnly
                   => Key(msg) \in OwnerIdentities)

\* The ownerOnly denial was just sent in a direct conversation for a command
\* which is groupOnly as well.
C16_Witness ==
    /\ parseCommand(<<"/", "x">>) \in DOMAIN commands
    /\ commands[<<"x">>].ownerOnly
    /\ commands[<<"x">>].groupOnly
    /\ sent = <<Notice(PrivateChat, "ownerOnly")>>

\* C17: the first-contact welcome.  The menu is sent as a welcome only to a
\* direct conversation whose identity was not seen before, and that identity
\* is seen from then on (the seen set never shrinks), so at most once per
\* identity, whatever the interleaving of the batches; a first direct
\* event gets it; and the event is not consumed: when the welcome returns,
\* the event goes through the dispatch (a registered command of a sender not
\* blocked is counted by the rate limiter).
C17_WelcomeOnce ==
    [][ /\ seenUsers \subseteq seenUsers'
        /\ \A i \in DOMAIN sent' :
            sent'[i].kind = "menu"
            => /\ sent'[i].to.server # "g.us"
               /\ sent'[i].to \notin seenUsers
               /\ sent'[i].to \in seenUsers'
        /\ \A r \in BagToSet(handlers) :
            /\ Steps(r)
            /\ r.pc = "autoRead"
            /\ ~Rejection
            /\ r.batch[r.i].remoteJid.server # "g.us"
            /\ r.batch[r.i].remoteJid \notin seenUsers
            => /\ sent' = <<Notice(r.batch[r.i].remoteJid, "menu")>>
               /\ At(r, r.i, "welcome")
        /\ \A r \in BagToSet(handlers) :
            /\ Steps(r)
            /\ r.pc = "welcome"
            /\ ~Rejection
            /\ Resolves(r.batch[r.i])
            /\ ~(messageTracker[Key(r.batch[r.i])].blocked)
            => messageTracker'[Key(r.batch[r.i])].count
                  = messageTracker[Key(r.batch[r.i])].count + 1 ]_vars

\* Two events of u1's direct conversation are in flight in two batches: the
\* first one got the welcome, the second one did not.
C17_Witness ==
    \E r1, r2 \in BagToSet(handlers) :
        /\ r1.pc = "welcome"
        /\ r2.pc = "typing"
        /\ r1.batch[r1.i].remoteJid = PrivateChat
        /\ r2.batch[r2.i].remoteJid = PrivateChat
        /\ phase[PrivateChat] = "NONE"

\* C18: an event that is self-originated or dropped by a scope feature-gate
\* changes no state and produces no outbound message: the delivery of a batch
\* changes nothing and sends nothing; no loop is ever at such an event; and
\* every change of the tracked chats, the seen users, the session store or
\* the rate state, and every send, is made by a loop for the event it is at.
C18_SkippedChangeNothing ==
    /\ [](\A r \in BagToSet(handlers) : r # Rejected => Handled(r.batch[r.i]))
    /\ [][ /\ received' # received
              => /\ UNCHANGED <<trackedChats, seenUsers, quizSessions, timers, messageTracker>>
                 /\ sent' = <<>>
           /\ \/ /\ UNCHANGED <<trackedChats, seenUsers, quizSessions, timers, messageTracker>>
                 /\ sent' = <<>>
              \/ \E r \in BagToSet(handlers) :
                    /\ Steps(r)
                    /\ r # Rejected
                    /\ trackedChats' \subseteq trackedChats \cup {r.batch[r.i].remoteJid}
                    /\ seenUsers' \subseteq seenUsers \cup {Key(r.batch[r.i])}
                    /\ \A c \in Chats \ {r.batch[r.i].remoteJid} :
                          quizSessions'[c] = quizSessions[c]
                    /\ \A k \in Identities \ {Key(r.batch[r.i])} :
                          messageTracker'[k] = messageTracker[k]
                    /\ \A i \in DOMAIN sent' : sent'[i].to = r.batch[r.i].remoteJid ]_vars

\* With the group responses switched off, a batch of a group event and a
\* direct event was delivered: the loop is at the direct event, and nothing
\* is tracked, seen or counted.
C18_Witness ==
    /\ ~features.respondToGroups
    /\ trackedChats = {}
    /\ seenUsers = {}
    /\ \A k \in Identities : messageTracker[k] = NoData
    /\ \E r \in BagToSet(handlers) :
          /\ r.i = 2
          /\ r.pc = "autoRead"
          /\ r.batch[1].remoteJid = GroupChat
          /\ ~r.batch[1].fromMe

\* ---------------------------------------------------- properties of parsing
\* The maximal runs of characters of s that are not whitespace, as pairs of
\* positions, and the k-th of them from the left.
Blank == {" "}
Runs(s) ==
    {<<a, b>> \in (DOMAIN s) \X (DOMAIN s) :
        /\ a <= b
        /\ \A i \in a..b : s[i] \notin Blank
        /\ a = 1 \/ s[a - 1] \in Blank
        /\ b = Len(s) \/ s[b + 1] \in Blank}
Run(s, k) ==
    CHOOSE run \in Runs(s) : Cardinality({other \in Runs(s) : other[1] <= run[1]}) = k
Token(s, k) == SubSeq(s, Run(s, k)[1], Run(s, k)[2])

\* A text with its capital letters folded.
Fold(s) == [i \in DOMAIN s |-> IF s[i] = "P" THEN "p" ELSE s[i]]

\* C19: the command name is the first whitespace-delimited token after the
\* first configured prefix the text starts with (the prefixes tried in their
\* order), lowercased; the other tokens are the arguments, as typed; a text
\* that starts with no prefix has no command; and a text has the same
\* command name as the text with its letters in lower case (as far as that
\* one starts with the same prefix: the prefixes are matched as typed).
C19_ParsedCommand ==
    parsed # NoParse
    => LET text == parsed.text
           prefixes == parsed.prefixes
           matching == {i \in DOMAIN prefixes :
                           /\ Len(prefixes[i]) <= Len(text)
                           /\ \A j \in DOMAIN prefixes[i] : text[j] = prefixes[i][j]}
           folded == {i \in DOMAIN prefixes :
                         /\ Len(prefixes[i]) <= Len(text)
                         /\ \A j \in DOMAIN prefixes[i] : Fold(text)[j] = prefixes[i][j]}
       IN  IF matching = {}
           THEN parsed.command = <<>> /\ parsed.args = <<>>
           ELSE LET first == CHOOSE i \in matching : \A j \in matching : i <= j
                    rest == SubSeq(text, Len(prefixes[first]) + 1, Len(text))
                    n == Cardinality(Runs(rest))
                IN  /\ n = 0 => parsed.command = <<>> /\ parsed.args = <<>>
                    /\ n > 0 => /\ parsed.command = Fold(Token(rest, 1))
                                /\ Len(parsed.args) = n - 1
                                /\ \A k \in 2..n : parsed.args[k - 1] = Token(rest, k)
                    /\ (\A i \in folded : first <= i) /\ first \in folded
                       => parseCommandWith(Fold(text), prefixes).command = parsed.command

\* "/P P" was parsed: the command is p, its argument P.
C19_Witness ==
    /\ parsed.text = <<"/", "P", " ", "P">>
    /\ parsed.prefixes = << <<"/", "p">>, <<"/">> >>
    /\ parsed.command = <<"p">>
    /\ parsed.args = << <<"P">> >>

\* C20: a text with a valid prefix followed by an unregistered token yields
\* no dispatch, no error message and no change of the rate state: the steps
\* of a loop at such an event leave the rate limiter as it is, send nothing
\* but the welcome or the ambient reply, and never reach the typing
\* indicator, the execution, a denial or the failure notice.
C20_UnregisteredIsIgnored ==
    /\ [][ \A r \in BagToSet(handlers) :
            /\ Steps(r)
            /\ r # Rejected
            /\ r.batch[r.i].text # <<>>
            /\ r.batch[r.i].text[1] = "/"
            /\ Token(Tail(r.batch[r.i].text), 1) \notin DOMAIN commands
            => /\ messageTracker' = messageTracker
               /\ \A i \in DOMAIN sent' : sent'[i].kind \in {"menu", "duaa"} ]_vars
    /\ [](\A r \in BagToSet(handlers) :
            r # Rejected /\ r.pc \in {"typing", "execute", "notice", "paused", "denial"}
            => parseCommand(r.batch[r.i].text) \in DOMAIN commands)

\* "/x" was handled with no command x registered, and the loop went on to
\* the second event of the batch.
C20_Witness ==
    /\ <<"x">> \notin DOMAIN commands
    /\ \E r \in BagToSet(handlers) :
          /\ r.i = 2
          /\ r.pc = "autoRead"
          /\ r.batch[1] = PipeMsg(GroupChat, PrivateChat, <<"/", "x">>, FALSE, TRUE)
          /\ features.respondToGroups
          /\ GroupChat \in trackedChats

\* C21: after all the startup registrations, the primary name of every
\* command and each of its aliases resolve to the descriptor of that command.
C21_KeysResolveToOwnCommand ==
    registered = Len(Startup)
    => \A i \in DOMAIN Startup :
          \A key \in KeysOf(Startup[i]) : getCommand(key) = Startup[i].commandData

\* C22: a registration raises no error (the next one of the file can always
\* run), and it overwrites silently: after it every key of the registration
\* resolves to the descriptor just registered, a key that was present
\* included, and every other key resolves as before.
C22_LastRegistrationWins ==
    /\ [](registered < Len(Startup) => ENABLED Register)
    /\ [][ registered' = registered + 1
           => LET reg == Startup[registered']
              IN  /\ DOMAIN commands' = DOMAIN commands \cup KeysOf(reg)
                  /\ \A key \in DOMAIN commands' :
                        commands'[key] = IF key \in KeysOf(reg)
                                         THEN reg.commandData
                                         ELSE commands[key] ]_vars

\* The registration just made has set a key that an earlier command had set:
\* the key resolves to the later descriptor.
C22_Witness ==
    /\ registered > 0
    /\ \E i \in 1..(registered - 1) :
          \E key \in KeysOf(Startup[i]) \cap KeysOf(Startup[registered]) :
             /\ Startup[i].commandData # Startup[registered].commandData
             /\ getCommand(key) = Startup[registered].commandData

\* C23: getUniqueCommands returns every registered command exactly once,
\* however many aliases it has: the length of the list is the number of
\* distinct commands registered.
C23_UniqueListsEachCommandOnce ==
    returned.call = "getUniqueCommands"
    => /\ Len(returned.list) =
              Cardinality({Startup[i].commandData : i \in 1..registered})
       /\ \A i \in 1..registered :
             Cardinality({k \in DOMAIN returned.list :
                             returned.list[k] = Startup[i].commandData}) = 1

\* The list was returned with sixteen commands registered under more keys
\* than that, one of the commands under nine keys.
C23_Witness ==
    /\ returned.call = "getUniqueCommands"
    /\ Len(returned.list) = Len(Startup)
    /\ Cardinality(DOMAIN commands) > Len(returned.list)
    /\ \E i \in DOMAIN Startup : Cardinality(KeysOf(Startup[i])) = 9

\* The step is the handling of an event's addChat and isNewUser / the start
\* of the process.
Tracked == returned'.call = "track"
Loaded == returned'.call = "load"

C25_StoreFailuresAreContained ==
    /\ [](returned.call \in {"track", "load"} => ~returned.threw)
    /\ [][ /\ Loaded /\ "Error loading chats" \in returned'.logged
              => trackedChats' = {}
           /\ Loaded /\ "Error loading seen users" \in returned'.logged
              => seenUsers' = {}
           /\ Tracked /\ "Error saving chats" \in returned'.logged
              => /\ returned'.added
                 /\ returned'.msg.remoteJid \in trackedChats'
                 /\ returned'.msg.remoteJid \notin trackedChats
                 /\ ~isGroup(returned'.msg.remoteJid)
                    => /\ senderJidOf(returned'.msg) \in seenUsers'
                       /\ returned'.isFirstTime = (senderJidOf(returned'.msg) \notin seenUsers)
           /\ Tracked /\ "Error saving seen users" \in returned'.logged
              => /\ returned'.isFirstTime
                 /\ senderJidOf(returned'.msg) \in seenUsers'
                 /\ senderJidOf(returned'.msg) \notin seenUsers ]_vars

\* Both saves failed for the first event of u1: u1 is in both sets in memory
\* and in neither file, both adds were reported as made.
C25_Witness ==
    /\ returned.call = "track"
    /\ returned.logged = SaveErrors
    /\ returned.added
    /\ returned.isFirstTime
    /\ ~returned.threw
    /\ PrivateChat \in trackedChats
    /\ PrivateChat \in seenUsers
    /\ PrivateChat \notin loadChats(chatsFile, "read").set
    /\ PrivateChat \notin loadSeenUsers(seenFile, "read").set

\* A start of the process whose reads both fail, with both files written
\* before.
C25_LoadWitness ==
    /\ returned.call = "load"
    /\ returned.logged = LoadErrors
    /\ chatsFile.kind = "json"
    /\ seenFile.kind = "json"
    /\ trackedChats = {}
    /\ seenUsers = {}

\* C26: the two sets are append-only: the handling of an event removes no
\* identifier from either set and leaves the event's chat in the tracked
\* chats; and the persisted record is rewritten in full on every mutation: a
\* step that changes a set saves it, and what a save without error leaves in
\* the file is the whole set, each identifier once; a step that changes
\* neither set writes neither file.
C26_AppendOnly ==
    [][ Tracked
        => /\ trackedChats \subseteq trackedChats'
           /\ seenUsers \subseteq seenUsers'
           /\ returned'.msg.remoteJid \in trackedChats'
           /\ trackedChats' # trackedChats /\ "Error saving chats" \notin returned'.logged
              => /\ chatsFile'.kind = "json"
                 /\ Elements(chatsFile'.ids) = trackedChats'
                 /\ Len(chatsFile'.ids) = Cardinality(trackedChats')
           /\ seenUsers' # seenUsers /\ "Error saving seen users" \notin returned'.logged
              => /\ seenFile'.kind = "json"
                 /\ Elements(seenFile'.ids) = seenUsers'
                 /\ Len(seenFile'.ids) = Cardinality(seenUsers')
           /\ trackedChats' = trackedChats => chatsFile' = chatsFile
           /\ seenUsers' = seenUsers => seenFile' = seenFile ]_vars

\* The third chat was added and saved: the file holds the three chats.
C26_Witness ==
    /\ returned.call = "track"
    /\ returned.added
    /\ returned.logged = {}
    /\ Cardinality(trackedChats) = 3
    /\ Elements(chatsFile.ids) = trackedChats
    /\ Len(chatsFile.ids) = 3

\* The step brings a loop over r's batch to the event k, suspended at pc.
Arrives(r, k, pc) ==
    CopiesIn(Loop(pc, r.batch, k), handlers') > CopiesIn(Loop(pc, r.batch, k), handlers)

\* C27: the auto-trigger on a plain number is excluded: for an event whose
\* text is only a page number from 1 to 604, in a conversation with no
\* session stored, no step of the loop sends a page (nothing is sent but the
\* first-time welcome), none changes the rate state, and the event never
\* reaches a denial, the typing indicator or the execution of a command.
C27_NoAutoTrigger ==
    /\ [][ \A r \in BagToSet(handlers) :
            /\ Steps(r)
            /\ r # Rejected
            /\ isValidPageNumber(Trim(r.batch[r.i].text))
            /\ ~HasSession(quizSessions, r.batch[r.i].remoteJid)
            => /\ \A i \in DOMAIN sent' : sent'[i].kind = "menu"
               /\ messageTracker' = messageTracker
               /\ \A pc \in {"report", "denial", "typing", "execute", "notice", "paused"} :
                     ~Arrives(r, r.i, pc) ]_vars
    /\ [](\A r \in BagToSet(handlers) :
            r # Rejected /\ isValidPageNumber(Trim(r.batch[r.i].text))
            => r.pc \in {"autoRead", "welcome", "report"})

\* " 2 " was handled in u1's direct conversation, which never had a session,
\* and the loop went on to the second event of the batch.
C27_Witness ==
    /\ phase[PrivateChat] = "NONE"
    /\ ~HasSession(quizSessions, PrivateChat)
    /\ features.respondToPrivate
    /\ PrivateChat \in seenUsers
    /\ \E r \in BagToSet(handlers) :
          /\ r.i = 2
          /\ r.pc = "autoRead"
          /\ r.batch[1] = PipeMsg(PrivateChat, NoJid, <<" ", "2", " ">>, FALSE, TRUE)

\* The decimal numeral of a natural number, and the numerals of the pages.
DigitChar(d) == CHOOSE c \in Digits : DigitOf[c] = d

RECURSIVE Decimal(_)
Decimal(n) ==
    IF n < 10 THEN <<DigitChar(n)>> ELSE Decimal(n \div 10) \o <<DigitChar(n % 10)>>

PageNumerals == {Decimal(n) : n \in 1..604}

\* A string of digits without its leading zeros.
RECURSIVE StripZeros(_)
StripZeros(s) == IF Len(s) > 1 /\ s[1] = "0" THEN StripZeros(Tail(s)) ELSE s

\* The argument is a decimal integer between 1 and 604.
IsPageArgument(args) ==
    /\ Len(args) = 1
    /\ \A i \in DOMAIN args[1] : args[1][i] \in Digits
    /\ StripZeros(args[1]) \in PageNumerals

\* C28: the page command sends a page image only when its argument is a
\* decimal integer between 1 and 604 inclusive, and then the page of that
\* number and nothing else; for every other argument (0, 605, negative, not
\* a number, none, more than one) nothing is sent.
C28_PageOnlyInRange ==
    returned.call = "page"
    => /\ ~IsPageArgument(returned.args) => sent = <<>>
       /\ sent # <<>>
          => /\ Len(sent) = 1
             /\ sent[1].kind = "page"
             /\ sent[1].num \in 1..604
             /\ Decimal(sent[1].num) = StripZeros(returned.args[1])
       /\ IsPageArgument(returned.args) /\ returned.delivered => sent # <<>>

\* The page 604 was sent for the argument "604".
C28_Witness ==
    /\ returned.call = "page"
    /\ returned.args = << <<"6", "0", "4">> >>
    /\ sent = <<Page(PrivateChat, 604)>>

\* Nothing was sent for the argument "605", with nothing failing.
C28_WitnessAbove ==
    /\ returned.call = "page"
    /\ returned.args = << <<"6", "0", "5">> >>
    /\ returned.delivered
    /\ sent = <<>>

\* The ambient reply is among what the step sends.
AmbientSent == \E i \in DOMAIN sent' : sent'[i].kind = "duaa"

\* C29: the ambient reply does not depend on command parsing.  It is sent
\* only with the feature enabled and for a text that has a letter of the
\* Arabic block, to the event's conversation and alone; at most once for an
\* event (the loop that has sent it does not come back to it); and it does
\* not consume the event: once it is sent the interceptor and the dispatch
\* run for the event, so that an event that names a registered command goes
\* on to the denial or to the execution of that command as it does without
\* the reply.
C29_AmbientIsIndependent ==
    [][ /\ AmbientSent
           => /\ autoDuaa.enabled
              /\ Len(sent') = 1
              /\ \E r \in BagToSet(handlers) :
                    /\ Steps(r)
                    /\ r.pc \in {"autoRead", "welcome"}
                    /\ ARABIC_REGEX(r.batch[r.i].text)
                    /\ sent'[1].to = r.batch[r.i].remoteJid
                    /\ Arrives(r, r.i, "duaa")
        /\ \A r \in BagToSet(handlers) :
              Steps(r) /\ r.pc = "duaa"
              => LET msg == r.batch[r.i]
                     cmd == getCommand(parseCommand(msg.text))
                 IN  /\ ~AmbientSent
                     /\ ~Arrives(r, r.i, "duaa")
                     /\ ~Arrives(r, r.i, "welcome")
                     /\ ~Arrives(r, r.i, "autoRead")
                     /\ ~Rejection /\ AnswerIntercepted(quizSessions, msg)
                        => Arrives(r, r.i, "report")
                     /\ ~Rejection /\ Resolves(msg) /\ ~BlockedNow(Key(msg))
                        => /\ messageTracker'[Key(msg)] # messageTracker[Key(msg)]
                           /\ IF Failing(cmd, msg) = {}
                              THEN Arrives(r, r.i, "typing")
                              ELSE Arrives(r, r.i, "denial") ]_vars

\* The ambient reply is being sent to the group for u1's event "/x alef",
\* with the command x registered for every sender.
C29_Witness ==
    /\ autoDuaa.enabled
    /\ sent = <<Notice(GroupChat, "duaa")>>
    /\ getCommand(<<"x">>) = XCmd([ownerOnly |-> FALSE, groupOnly |-> FALSE,
                                   privateOnly |-> FALSE])
    /\ \E r \in BagToSet(handlers) :
          /\ r.pc = "duaa"
          /\ r.batch[r.i] = PipeMsg(GroupChat, PrivateChat, <<"/", "x", " ", "alef">>,
                                    FALSE, TRUE)

\* The command of that event is being executed with the feature disabled.
C29_WitnessDisabled ==
    /\ ~autoDuaa.enabled
    /\ \E r \in BagToSet(handlers) :
          /\ r.pc = "execute"
          /\ ARABIC_REGEX(r.batch[r.i].text)

\* C30: every armed expiry timer belongs to the session stored for its
\* conversation: the conversation has a session, and the session's timer is
\* that timer.
C30_NoOrphanedTimer ==
    \A t \in timers :
        /\ HasSession(quizSessions, t.sender)
        /\ quizSessions[t.sender].timer = t.id

\* C31: whenever a time's-up report is emitted in a conversation, the answer
\* it names is the correct answer of the question held by the session that
\* the timer's callback removed from the store.
C31_TimeUpNamesRemovedSession ==
    [][ \A c \in Chats :
            SentTo(sent', c, {"timeup"})
            => /\ HasSession(quizSessions, c)
               /\ ~HasSession(quizSessions', c)
               /\ sent'[1].answer = findAnswer(quizSessions[c].question.answers)
               /\ sent'[1].num = correctNumOf(quizSessions[c].question) ]_vars

FailedStartKinds == {"noPool", "failure"}

\* C32: a quiz start that fails before the session is stored (the pool is
\* empty, or the send of the question fails) leaves the session store as it
\* was and arms no timer; and a quiz start is answered "pending" only when
\* the conversation holds a session, so the failed start does not make a
\* later start in that conversation be rejected.
C32_FailedStartStoresNothing ==
    [][ \A c \in Chats :
            /\ SentTo(sent', c, FailedStartKinds)
               => /\ quizSessions' = quizSessions
                  /\ timers' = timers
                  /\ nextTimer' = nextTimer
            /\ SentTo(sent', c, {"pending"}) => HasSession(quizSessions, c) ]_vars

\* The send of the question has just failed in a conversation that had no
\* session, and the conversation has none.
C32_Witness ==
    /\ Len(sent) = 1
    /\ sent[1].kind = "failure"
    /\ ~HasSession(quizSessions, sent[1].to)
    /\ \A t \in timers : t.sender # sent[1].to

\* The quiz command has just answered that no question is loaded, not for
\* the first time.
C32_WitnessEmptyPool ==
    /\ Len(sent) = 1
    /\ sent[1].kind = "noPool"
    /\ received > 1
    /\ quizSessions = [c \in Chats |-> NoSession]
    /\ timers = {}

\* The step takes the loop r from an await before the dispatch into the
\* dispatch of its event (not to the welcome or the ambient reply, and the
\* awaited call did not reject).
Dispatches(r) ==
    /\ Steps(r)
    /\ r # Rejected
    /\ r.pc \in DispatchPcs
    /\ ~Rejection
    /\ ~Arrives(r, r.i, "welcome")
    /\ ~Arrives(r, r.i, "duaa")

\* C33: the quiz-answer interception is subject neither to the rate limiter
\* nor to the permission checks: the dispatch of an event with a valid
\* answer token in a conversation that holds a session consumes the session
\* (the session is deleted, its timer cleared, the answer report sent),
\* whoever the sender is and whether or not the sender is blocked; and a
\* step that sends an answer report leaves every sender's rate state as it
\* is.
C33_AnswerBypassesRateLimit ==
    [][ /\ \A r \in BagToSet(handlers) :
              /\ Dispatches(r)
              /\ HasSession(quizSessions, r.batch[r.i].remoteJid)
              /\ IsAnswerToken(Trim(r.batch[r.i].text))
              => LET sender == r.batch[r.i].remoteJid
                 IN  /\ ~HasSession(quizSessions', sender)
                     /\ timers' = clearTimeout(timers, quizSessions[sender].timer)
                     /\ SentTo(sent', sender, AnswerKinds)
                     /\ Arrives(r, r.i, "report")
                     /\ messageTracker' = messageTracker
        /\ (\E i \in DOMAIN sent' : sent'[i].kind \in AnswerKinds)
           => messageTracker' = messageTracker ]_vars

\* u1, blocked by the rate limiter, has just answered the quiz of the direct
\* conversation: the session is consumed and the block is as it was.
C33_Witness ==
    /\ SentTo(sent, PrivateChat, AnswerKinds)
    /\ ~HasSession(quizSessions, PrivateChat)
    /\ timers = {}
    /\ messageTracker[PrivateChat].blocked
    /\ now < messageTracker[PrivateChat].blockedUntil
    /\ messageTracker[PrivateChat].count = maxMessages + 1

\* The quiz that u1 started in the group was just answered by another
\* participant of the group, who never sent a command.
C33_WitnessOtherParticipant ==
    /\ SentTo(sent, GroupChat, AnswerKinds)
    /\ ~HasSession(quizSessions, GroupChat)
    /\ phase[GroupChat] = "ANSWERED"
    /\ messageTracker[OwnerLidJid] = NoData
    /\ \E r \in BagToSet(handlers) :
          /\ r.pc = "report"
          /\ r.batch[r.i].participant = OwnerLidJid

\* C34: a rate-limit check made while the sender is blocked leaves the
\* sender's rate state as it is: the count does not grow, and the block
\* still ends blockDuration after the check that imposed it, however many
\* attempts are made during it.
C34_BlockedCheckChangesNothing ==
    /\ [][ \A s \in Senders :
              messageTracker[s].blocked /\ now < messageTracker[s].blockedUntil
              => messageTracker'[s] = messageTracker[s] ]_vars
    /\ [](\A s \in Senders :
              IsBlockedAt(window[s], now)
              => /\ messageTracker[s].blocked
                 /\ messageTracker[s].blockedUntil = window[s].blockedAt + blockDuration
                 /\ messageTracker[s].count = maxMessages + 1)

\* A check was just made and refused during a block, some time after the
\* check that imposed the block.
C34_Witness ==
    /\ lastCheck.sender # NoJid
    /\ lastCheck.wasBlocked
    /\ lastCheck.result
    /\ lastCheck.at > window[lastCheck.sender].blockedAt
    /\ lastCheck.at = now
    /\ messageTracker[lastCheck.sender].blockedUntil
          = window[lastCheck.sender].blockedAt + blockDuration

\* The session of the conversation c and the timers armed for it.
StateOf(c) == <<quizSessions[c], {t \in timers : t.sender = c}>>

\* The callback of the timer t ran in the step.
Fired(t) == t \in timers /\ t \notin timers' /\ handlers' = handlers

\* C35: state is isolated per key.  A step of a handler (a quiz start, an
\* answer, a failed start) changes no session and no timer of a conversation
\* other than that of its event, and no rate state but that of its event's
\* sender; the callback of a timer changes no session and no timer of a
\* conversation other than its own, and no rate state at all.
C35_IsolatedPerKey ==
    [][ /\ \A r \in BagToSet(handlers) :
              Steps(r)
              => /\ \A d \in Chats \ {r.msg.remoteJid} : StateOf(d)' = StateOf(d)
                 /\ \A k \in Identities \ {Key(r.msg)} :
                       messageTracker'[k] = messageTracker[k]
        /\ \A t \in timers :
              Fired(t)
              => /\ \A d \in Chats \ {t.sender} : StateOf(d)' = StateOf(d)
                 /\ messageTracker' = messageTracker ]_vars

\* The group's quiz has just ended (answered or expired) while the direct
\* conversation holds its own session with its timer armed, and the rate
\* limiter has counted a command of each of the two senders.
C35_Witness ==
    /\ SentTo(sent, GroupChat, TerminalKinds)
    /\ ~HasSession(quizSessions, GroupChat)
    /\ HasSession(quizSessions, PrivateChat)
    /\ \E t \in timers : t.sender = PrivateChat /\ t.id = quizSessions[PrivateChat].timer
    /\ messageTracker[OwnerLidJid].count = 1
    /\ messageTracker[PrivateChat].count = 1

\* The same, the group's quiz ended by its timer.
C35_WitnessExpired ==
    /\ SentTo(sent, GroupChat, {"timeup"})
    /\ HasSession(quizSessions, PrivateChat)
    /\ messageTracker[OwnerLidJid].count = 1
    /\ messageTracker[PrivateChat].count = 1

\* The executions of the broadcast command in flight that have read
\* trackedChats.
Broadcasting == {r \in BagToSet(handlers) : r.pc \in {"start", "deliver", "delay", "report"}}

\* The recipients of the execution r: the chats tracked when it started,
\* but the issuing one.
Recipients(r) == r.tracked \ {r.sender}

\* C36: broadcast attempts delivery to every conversation tracked at the
\* moment it starts except the issuing conversation, each once, and to no
\* other; a failed send to one recipient is counted and the loop goes on to
\* the next recipient (or, after the last, to the report); and the success
\* count plus the failure count of the completion report is the number of
\* recipients attempted.
C36_BroadcastReachesEveryRecipient ==
    /\ [](\A r \in Broadcasting :
            /\ Elements(r.attempted) \subseteq Recipients(r)
            /\ Cardinality(Elements(r.attempted)) = Len(r.attempted)
            /\ Len(r.failedChats) = r.failCount
            /\ r.successCount + r.failCount
                  = Len(r.attempted) - (IF r.pc = "deliver" THEN 1 ELSE 0)
            /\ r.pc = "report"
               => /\ Elements(r.attempted) = Recipients(r)
                  /\ r.successCount + r.failCount = Cardinality(Recipients(r)))
    /\ [][ \A r \in BagToSet(handlers) :
              Steps(r) /\ r.pc = "deliver"
              => \E r2 \in BagToSet(handlers') :
                    /\ CopiesIn(r2, handlers') > CopiesIn(r2, handlers)
                    /\ \/ /\ r2.pc = "delay"
                          /\ r2.successCount = r.successCount + 1
                          /\ r2.failCount = r.failCount
                       \/ /\ r2.failCount = r.failCount + 1
                          /\ r2.successCount = r.successCount
                          /\ r2.failedChats = Append(r.failedChats, r.allChats[r.i])
                          /\ IF Recipients(r) \ Elements(r.attempted) = {}
                             THEN /\ r2.pc = "report"
                                  /\ sent' = <<Report(r.sender, r2.successCount,
                                                      r2.failCount, Cardinality(r.tracked))>>
                             ELSE /\ r2.pc = "deliver"
                                  /\ r2.allChats[r2.i]
                                        \in Recipients(r) \ Elements(r.attempted)
                                  /\ sent' = <<Notice(r2.allChats[r2.i], "broadcast")>> ]_vars

\* The completion report of a broadcast issued in the group was just sent:
\* the send to the first of its two recipients failed, the send to the
\* second succeeded, and a chat tracked since the broadcast started was not
\* written to.
C36_Witness ==
    \E r \in BagToSet(handlers) :
        /\ r.pc = "report"
        /\ r.sender = GroupChat
        /\ Len(r.attempted) = 2
        /\ r.failedChats = <<r.attempted[1]>>
        /\ r.successCount = 1
        /\ sent = <<Report(GroupChat, 1, 1, 3)>>
        /\ trackedChats # r.tracked

====
